---- MODULE Spec2Model ----
(***************************************************************************)
(* IonicSQLiteQueryRunner: the query runner of the ionic-sqlite driver.    *)
(* The runner issues SQL statements to one SQLite connection; every        *)
(* structural change of a table goes through recreateTable (create a       *)
(* temporary table, copy the shared columns, drop, rename, re-create the   *)
(* indices).  The statements are modelled as records, the engine as the    *)
(* effect of each statement on a small catalog of tables and indices.      *)
(***************************************************************************)
EXTENDS Integers, Sequences, FiniteSets, TLC

VARIABLES
    isReleased,          \* IonicSQLiteQueryRunner.isReleased
    databaseConnection,  \* releaseCallback, isTransactionActive, connection promise
    db,                  \* the SQLite database behind the connection
    pending,             \* statements handed to query(), not yet executed (FIFO)
    logger,              \* what the Logger has been given
    call,                \* the operation called last: name, handler position, locals
    outcome,             \* the promise returned by the operation called last
    released,            \* how often release() and releaseCallback have been invoked
    calls,               \* number of operations called so far
    faults               \* number of statements the engine failed for reasons of its own

vars == <<isReleased, databaseConnection, db, pending, logger, call, outcome,
          released, calls, faults>>

----------------------------------------------------------------------------
(* Bounds of the model *)

\* operations called in one behaviour
MaxCalls == 2
\* release() calls in one behaviour
MaxReleases == 1
\* rows a table holds at the start
MaxRows == 2
\* pieces of creation text before the AUTOINCREMENT keyword
MaxSegments == 4
\* statements the engine fails although it could execute them (I/O error, lock)
MaxFaults == 1

----------------------------------------------------------------------------
(* Sequence helpers (Array.prototype.map / filter / indexOf / join) *)

Range(s) == {s[i] : i \in DOMAIN s}

RECURSIVE FilterSeq(_, _)
\* s.filter(x => x \in keep), order kept
FilterSeq(s, keep) ==
    IF s = <<>> THEN <<>>
    ELSE IF Head(s) \in keep THEN <<Head(s)>> \o FilterSeq(Tail(s), keep)
         ELSE FilterSeq(Tail(s), keep)

RECURSIVE RemoveAll(_, _)
\* s without the elements of drop, order kept
RemoveAll(s, drop) ==
    IF s = <<>> THEN <<>>
    ELSE IF Head(s) \in drop THEN RemoveAll(Tail(s), drop)
         ELSE <<Head(s)>> \o RemoveAll(Tail(s), drop)

Names(columns) == [i \in DOMAIN columns |-> columns[i].name]

NoDuplicates(s) == \A i, j \in DOMAIN s : s[i] = s[j] => i = j

----------------------------------------------------------------------------
(* Descriptors: ColumnSchema, ForeignKeySchema, IndexSchema, TableSchema *)

\* SQL NULL (JavaScript null) among the integer cell values
NULL == 0

Column(name, isNullable, isPrimary, isGenerated, isUnique) ==
    [name |-> name, isNullable |-> isNullable, isPrimary |-> isPrimary,
     isGenerated |-> isGenerated, isUnique |-> isUnique]

ForeignKey(name, columnNames, referencedColumnNames, referencedTableName) ==
    [name |-> name, columnNames |-> columnNames,
     referencedColumnNames |-> referencedColumnNames,
     referencedTableName |-> referencedTableName]

Index(tableName, name, columnNames, isUnique) ==
    [tableName |-> tableName, name |-> name, columnNames |-> columnNames,
     isUnique |-> isUnique]

PrimaryKey(name, columnName) == [name |-> name, columnName |-> columnName]

Table(name, columns, foreignKeys, indices) ==
    [name |-> name, columns |-> columns, primaryKeys |-> <<>>,
     foreignKeys |-> foreignKeys, indices |-> indices]

----------------------------------------------------------------------------
(* DDL statement builder *)

TemporaryName(name) == "temporary_" \o name

\* buildCreateColumnSql: "name" type [NOT NULL] [UNIQUE] [PRIMARY KEY AUTOINCREMENT]
buildCreateColumnSql(column) ==
    [name |-> column.name,
     notNull |-> (column.isNullable # TRUE),
     unique |-> (column.isUnique = TRUE),
     autoIncrement |-> (column.isGenerated = TRUE)]

\* mutant of PrimaryKeyColumns: generated columns are listed as well
PrimaryKeyColumnsWithGenerated(columns) ==
    Names(SelectSeq(columns, LAMBDA c : c.isPrimary))

\* columns.filter(column => column.isPrimary && !column.isGenerated), names only
PrimaryKeyColumns(columns) ==
    Names(SelectSeq(columns, LAMBDA c : c.isPrimary /\ ~c.isGenerated))

\* the FOREIGN KEY(...) REFERENCES "table"(...) clauses, one per foreign key
ForeignKeyClauses(foreignKeys) ==
    [i \in DOMAIN foreignKeys |->
        [columnNames |-> foreignKeys[i].columnNames,
         referencedTableName |-> foreignKeys[i].referencedTableName,
         referencedColumnNames |-> foreignKeys[i].referencedColumnNames]]

\* sql1 of recreateTable: CREATE TABLE "temporary_<name>" (...)
CreateTemporaryTableSql(tableSchema) ==
    [sql |-> "CREATE TABLE",
     table |-> TemporaryName(tableSchema.name),
     ifNotExists |-> FALSE,
     columnDefinitions |->
        [i \in DOMAIN tableSchema.columns |-> buildCreateColumnSql(tableSchema.columns[i])],
     foreignKeys |-> ForeignKeyClauses(tableSchema.foreignKeys),
     primaryKey |-> PrimaryKeyColumns(tableSchema.columns)]

\* the statement of createTable: CREATE TABLE IF NOT EXISTS "<name>" (...)
CreateTableSql(table) ==
    [sql |-> "CREATE TABLE",
     table |-> table.name,
     ifNotExists |-> TRUE,
     columnDefinitions |->
        [i \in DOMAIN table.columns |-> buildCreateColumnSql(table.columns[i])],
     foreignKeys |-> <<>>,
     primaryKey |-> PrimaryKeyColumns(table.columns)]

SelectAllSql(name) == [sql |-> "SELECT *", table |-> name]

\* mutant of colInTwiceArr: the last shared column is left out of the copy
colInTwiceArrButLast(firstRow, tableSchema) ==
    LET shared == FilterSeq(Names(firstRow), Range(Names(tableSchema.columns)))
    IN  IF Len(shared) > 1 THEN SubSeq(shared, 1, Len(shared) - 1) ELSE shared

\* mutant of colInTwiceArr: the target's column names are filtered by the old
\* row's, so the list comes in the target's order
colInTwiceArrOfTarget(firstRow, tableSchema) ==
    FilterSeq(Names(tableSchema.columns), Range(Names(firstRow)))

\* oldColumnNamesArr.filter(x => newColumnNamesArr.indexOf(x) >= 0)
colInTwiceArr(firstRow, tableSchema) ==
    FilterSeq(Names(firstRow), Range(Names(tableSchema.columns)))

\* colInTwiceArr.map(x => `"${x}"`): the names in quotes, as on the SELECT side
colInTwice(columnNames) ==
    [i \in DOMAIN columnNames |-> <<"\"", columnNames[i], "\"">>]

\* colInTwiceArr.join(", "): the bare names, as on the INSERT side
colInTwiceWithout(columnNames) == columnNames

\* sql2 of recreateTable: INSERT INTO "temporary_<name>" (cols) SELECT cols FROM "<name>"
InsertSelectSql(name, columnNames) ==
    [sql |-> "INSERT SELECT", table |-> TemporaryName(name), from |-> name,
     insertColumns |-> colInTwiceWithout(columnNames),
     selectColumns |-> colInTwice(columnNames)]

DropTableSql(name) == [sql |-> "DROP TABLE", table |-> name]

RenameTableSql(name) ==
    [sql |-> "ALTER TABLE RENAME", table |-> TemporaryName(name), to |-> name]

\* the statement of createIndex: CREATE [UNIQUE ]INDEX "<name>" ON "<tableName>"(cols)
CreateIndexSql(index) ==
    [sql |-> "CREATE INDEX", name |-> index.name, table |-> index.tableName,
     columnNames |-> index.columnNames, unique |-> index.isUnique]

DropIndexSql(indexName) == [sql |-> "DROP INDEX", name |-> indexName]

----------------------------------------------------------------------------
(* Statements of the CRUD and transaction operations *)

\* insert: INSERT INTO <tableName>(<keys>) VALUES ($1, ...)
InsertSql(tableName, keyValues) ==
    [sql |-> "INSERT", table |-> tableName, columns |-> Names(keyValues),
     parameters |-> [i \in DOMAIN keyValues |-> keyValues[i].value]]

\* update: UPDATE <tableName> SET <valuesMap> [WHERE <conditions>]
UpdateSql(tableName, valuesMap, conditions) ==
    [sql |-> "UPDATE", table |-> tableName, set |-> valuesMap, where |-> conditions]

\* delete: DELETE FROM "<tableName>" WHERE <conditions>
DeleteSql(tableName, conditions) ==
    [sql |-> "DELETE", table |-> tableName, where |-> conditions]

\* insertIntoClosureTable, first statement (with or without the level column)
ClosureInsertSql(tableName, newEntityId, parentId, hasLevel) ==
    [sql |-> "INSERT CLOSURE", table |-> tableName, newEntityId |-> newEntityId,
     parentId |-> parentId, hasLevel |-> hasLevel]

\* insertIntoClosureTable, second statement: SELECT MAX(level) as level ...
MaxLevelSql(tableName, parentId) ==
    [sql |-> "SELECT MAX(level)", table |-> tableName, parentId |-> parentId]

\* clearDatabase, first statement: select 'drop table ' || name ... from sqlite_master
SelectDropsSql == [sql |-> "SELECT DROPS"]

\* loadSchemaTables: SELECT * FROM sqlite_master WHERE type = 'table' AND name != 'sqlite_sequence'
MasterSql == [sql |-> "SELECT sqlite_master"]
TableInfoSql(name) == [sql |-> "PRAGMA table_info", table |-> name]
IndexListSql(name) == [sql |-> "PRAGMA index_list", table |-> name]
ForeignKeyListSql(name) == [sql |-> "PRAGMA foreign_key_list", table |-> name]
IndexInfoSql(indexName) == [sql |-> "PRAGMA index_info", name |-> indexName]

BeginSql == [sql |-> "BEGIN TRANSACTION"]
CommitSql == [sql |-> "COMMIT"]
RollbackSql == [sql |-> "ROLLBACK"]

----------------------------------------------------------------------------
(* The SQLite engine: what db.executeSql does with a statement *)

RowValue(row, name) == row[CHOOSE i \in DOMAIN row : row[i].name = name].value

\* the indices the database holds on a table
IndicesOnTable(d, name) == {i \in d.indices : i.tableName = name}

Position(s, x) == CHOOSE i \in DOMAIN s : s[i] = x

\* a row satisfies every condition name = value of a WHERE clause
Matches(row, conditions) ==
    \A i \in DOMAIN conditions :
        /\ conditions[i].name \in Range(Names(row))
        /\ RowValue(row, conditions[i].name) = conditions[i].value

\* NOT NULL, UNIQUE and PRIMARY KEY constraints of a table definition
ValidRows(table, rows) ==
    /\ \A i \in DOMAIN table.columns : \A k \in DOMAIN rows :
          table.columns[i].notNull => RowValue(rows[k], table.columns[i].name) # NULL
    /\ \A i \in DOMAIN table.columns : \A k, l \in DOMAIN rows :
          /\ table.columns[i].unique \/ table.columns[i].autoIncrement
          /\ k # l
          /\ RowValue(rows[k], table.columns[i].name) # NULL
          => RowValue(rows[k], table.columns[i].name) # RowValue(rows[l], table.columns[i].name)
    /\ table.primaryKey # <<>> =>
          \A k, l \in DOMAIN rows :
              k # l => \E i \in DOMAIN table.primaryKey :
                  RowValue(rows[k], table.primaryKey[i]) # RowValue(rows[l], table.primaryKey[i])

\* a UNIQUE index accepts the rows of its table
IndexAccepts(rows, columnNames) ==
    \A k, l \in DOMAIN rows :
        k # l => \E i \in DOMAIN columnNames :
            RowValue(rows[k], columnNames[i]) # RowValue(rows[l], columnNames[i])

\* the row a table stores for the values given for some of its columns; an
\* AUTOINCREMENT column left out is given the next rowid, any other column NULL
StoredRow(table, columnNames, values, rowid) ==
    [i \in DOMAIN table.columns |->
        [name |-> table.columns[i].name,
         value |-> IF table.columns[i].name \in Range(columnNames)
                   THEN values[Position(columnNames, table.columns[i].name)]
                   ELSE IF table.columns[i].autoIncrement THEN rowid ELSE NULL]]

\* the rows INSERT INTO <table> (insertColumns) SELECT selectColumns FROM <from> adds
\* the column a quoted identifier names
Unquoted(identifier) == identifier[2]

CopiedRows(d, s) ==
    LET source == d.tables[s.from].rows
        target == d.tables[s.table]
    IN  [k \in DOMAIN source |->
            StoredRow(target, s.insertColumns,
                      [i \in DOMAIN s.selectColumns |->
                          RowValue(source[k], Unquoted(s.selectColumns[i]))],
                      Len(target.rows) + k)]

\* the rows of the closure-table INSERT ... SELECT ... UNION ALL SELECT ...
ClosureRows(d, s) ==
    LET rows == d.tables[s.table].rows
        up == SelectSeq(rows, LAMBDA r : RowValue(r, "descendant") = s.parentId)
    IN  IF s.hasLevel
        THEN [k \in DOMAIN up |->
                 <<[name |-> "ancestor", value |-> RowValue(up[k], "ancestor")],
                   [name |-> "descendant", value |-> s.newEntityId],
                   [name |-> "level", value |-> RowValue(up[k], "level") + 1]>>]
             \o << <<[name |-> "ancestor", value |-> s.newEntityId],
                     [name |-> "descendant", value |-> s.newEntityId],
                     [name |-> "level", value |-> 1]>> >>
        ELSE [k \in DOMAIN up |->
                 <<[name |-> "ancestor", value |-> RowValue(up[k], "ancestor")],
                   [name |-> "descendant", value |-> s.newEntityId]>>]
             \o << <<[name |-> "ancestor", value |-> s.newEntityId],
                     [name |-> "descendant", value |-> s.newEntityId]>> >>

ColumnNamesOf(d, name) == Range(Names(d.tables[name].columns))

\* a set of names as a sequence, in the order the catalog lists them
RECURSIVE Listed(_, _)
Listed(order, names) ==
    IF order = <<>> THEN <<>>
    ELSE IF Head(order) \in names THEN <<Head(order)>> \o Listed(Tail(order), names)
         ELSE Listed(Tail(order), names)

CatalogOrder == <<"t", "temporary_t", "u", "temporary_u", "tree", "ia", "ib", "iab", "iu">>

RECURSIVE Flatten(_)
Flatten(ss) == IF ss = <<>> THEN <<>> ELSE Head(ss) \o Flatten(Tail(ss))

\* a list of token lists joined by ", "
RECURSIVE Join(_)
Join(ss) ==
    IF ss = <<>> THEN <<>>
    ELSE IF Len(ss) = 1 THEN Head(ss)
         ELSE Head(ss) \o <<",">> \o Join(Tail(ss))

Quoted(name) == <<"\"", name, "\"">>

\* the creation text sqlite_master keeps for a table, as its sequence of tokens
TableSql(name, table) ==
    <<"CREATE TABLE">> \o Quoted(name) \o <<"(">>
    \o Join([i \in DOMAIN table.columns |->
                Quoted(table.columns[i].name) \o <<"type">>
                \o (IF table.columns[i].notNull THEN <<"NOT NULL">> ELSE <<>>)
                \o (IF table.columns[i].unique THEN <<"UNIQUE">> ELSE <<>>)
                \o (IF table.columns[i].autoIncrement
                    THEN <<"PRIMARY KEY", "AUTOINCREMENT">> ELSE <<>>)])
    \o Flatten([i \in DOMAIN table.foreignKeys |->
                   <<",", "FOREIGN KEY", "(">>
                   \o Join([j \in DOMAIN table.foreignKeys[i].columnNames |->
                               Quoted(table.foreignKeys[i].columnNames[j])])
                   \o <<")", "REFERENCES">> \o Quoted(table.foreignKeys[i].referencedTableName)
                   \o <<"(">>
                   \o Join([j \in DOMAIN table.foreignKeys[i].referencedColumnNames |->
                               Quoted(table.foreignKeys[i].referencedColumnNames[j])])
                   \o <<")">>])
    \o (IF table.primaryKey = <<>> THEN <<>>
        ELSE <<",", "PRIMARY KEY", "(">>
             \o Join([i \in DOMAIN table.primaryKey |-> <<table.primaryKey[i]>>])
             \o <<")">>)
    \o <<")">>

\* the indices the engine makes by itself: one per UNIQUE column, one for a
\* PRIMARY KEY(...) clause, named sqlite_autoindex_<table>_<n>
AutoIndexes(name, table) ==
    LET uniques == SelectSeq(table.columns, LAMBDA c : c.unique)
        keys == [i \in DOMAIN uniques |-> [origin |-> "u", columnNames |-> <<uniques[i].name>>]]
                \o (IF table.primaryKey = <<>> THEN <<>>
                    ELSE <<[origin |-> "pk", columnNames |-> table.primaryKey]>>)
    IN  [i \in DOMAIN keys |->
            [name |-> "sqlite_autoindex_" \o name \o "_" \o ToString(i),
             unique |-> 1, origin |-> keys[i].origin, columnNames |-> keys[i].columnNames]]

\* the rows of PRAGMA index_list: the indices created on the table, then its own
IndexList(d, name) ==
    LET created == Listed(CatalogOrder, {i.name : i \in IndicesOnTable(d, name)})
    IN  [k \in DOMAIN created |->
            LET index == CHOOSE i \in d.indices : i.name = created[k]
            IN  [name |-> index.name, unique |-> IF index.isUnique THEN 1 ELSE 0,
                 origin |-> "c", columnNames |-> index.columnNames]]
        \o AutoIndexes(name, d.tables[name])

\* every index of the database as index_list would show it
AllIndices(d) ==
    UNION {Range(IndexList(d, name)) : name \in DOMAIN d.tables}

\* 1-based position of a column in the primary key of its table, 0 if not in it
PkPosition(table, column) ==
    IF column.autoIncrement THEN 1
    ELSE IF column.name \in Range(table.primaryKey)
         THEN Position(table.primaryKey, column.name) ELSE 0

\* whether the engine executes the statement (otherwise executeSql rejects)
Executable(d, s) ==
    CASE s.sql = "CREATE TABLE" ->
            \/ s.ifNotExists /\ s.table \in DOMAIN d.tables
            \/ /\ s.table \notin DOMAIN d.tables
               /\ s.columnDefinitions # <<>>
               /\ NoDuplicates(Names(s.columnDefinitions))
               /\ Cardinality({i \in DOMAIN s.columnDefinitions :
                                   s.columnDefinitions[i].autoIncrement})
                    + (IF s.primaryKey = <<>> THEN 0 ELSE 1) <= 1
               /\ Range(s.primaryKey) \subseteq Range(Names(s.columnDefinitions))
               /\ \A i \in DOMAIN s.foreignKeys :
                     Range(s.foreignKeys[i].columnNames) \subseteq Range(Names(s.columnDefinitions))
      [] s.sql = "SELECT *" -> s.table \in DOMAIN d.tables
      [] s.sql = "INSERT SELECT" ->
            /\ s.table \in DOMAIN d.tables
            /\ s.from \in DOMAIN d.tables
            /\ s.insertColumns # <<>>
            /\ Len(s.insertColumns) = Len(s.selectColumns)
            /\ NoDuplicates(s.insertColumns)
            /\ Range(s.insertColumns) \subseteq ColumnNamesOf(d, s.table)
            /\ \A i \in DOMAIN s.selectColumns :
                  Unquoted(s.selectColumns[i]) \in ColumnNamesOf(d, s.from)
            /\ ValidRows(d.tables[s.table], d.tables[s.table].rows \o CopiedRows(d, s))
      [] s.sql = "DROP TABLE" -> s.table \in DOMAIN d.tables
      [] s.sql = "ALTER TABLE RENAME" ->
            s.table \in DOMAIN d.tables /\ s.to \notin DOMAIN d.tables
      [] s.sql = "CREATE INDEX" ->
            /\ s.name \notin {i.name : i \in d.indices}
            /\ s.table \in DOMAIN d.tables
            /\ s.columnNames # <<>>
            /\ Range(s.columnNames) \subseteq ColumnNamesOf(d, s.table)
            /\ s.unique => IndexAccepts(d.tables[s.table].rows, s.columnNames)
      [] s.sql = "DROP INDEX" -> s.name \in {i.name : i \in d.indices}
      [] s.sql = "INSERT" ->
            /\ s.table \in DOMAIN d.tables
            /\ s.columns # <<>>
            /\ Range(s.columns) \subseteq ColumnNamesOf(d, s.table)
            /\ ValidRows(d.tables[s.table],
                         Append(d.tables[s.table].rows,
                                StoredRow(d.tables[s.table], s.columns, s.parameters,
                                          Len(d.tables[s.table].rows) + 1)))
      [] s.sql = "UPDATE" ->
            /\ s.table \in DOMAIN d.tables
            /\ s.set # <<>>
            /\ Range(Names(s.set)) \cup Range(Names(s.where)) \subseteq ColumnNamesOf(d, s.table)
      [] s.sql = "DELETE" ->
            /\ s.table \in DOMAIN d.tables
            /\ s.where # <<>>
            /\ Range(Names(s.where)) \subseteq ColumnNamesOf(d, s.table)
      [] s.sql = "INSERT CLOSURE" ->
            /\ s.table \in DOMAIN d.tables
            /\ {"ancestor", "descendant"} \cup (IF s.hasLevel THEN {"level"} ELSE {})
                 = ColumnNamesOf(d, s.table)
      [] s.sql = "SELECT MAX(level)" ->
            /\ s.table \in DOMAIN d.tables
            /\ {"descendant", "level"} \subseteq ColumnNamesOf(d, s.table)
      [] s.sql \in {"PRAGMA table_info", "PRAGMA index_list", "PRAGMA foreign_key_list"} ->
            s.table \in DOMAIN d.tables
      [] s.sql = "PRAGMA index_info" -> s.name \in {i.name : i \in AllIndices(d)}
      [] s.sql = "BEGIN TRANSACTION" -> d.saved = <<>>
      [] s.sql = "COMMIT" -> d.saved # <<>>
      [] s.sql = "ROLLBACK" -> d.saved # <<>>
      [] OTHER -> TRUE

WithTable(d, name, table) ==
    [d EXCEPT !.tables = [n \in DOMAIN d.tables \cup {name} |->
                             IF n = name THEN table ELSE d.tables[n]]]

WithRows(d, name, rows) == WithTable(d, name, [d.tables[name] EXCEPT !.rows = rows])

\* the database after the engine has executed the statement
Effect(d, s) ==
    CASE s.sql = "CREATE TABLE" ->
            IF s.table \in DOMAIN d.tables THEN d
            ELSE WithTable(d, s.table,
                           [columns |-> s.columnDefinitions, primaryKey |-> s.primaryKey,
                            foreignKeys |-> s.foreignKeys, rows |-> <<>>])
      [] s.sql = "INSERT SELECT" ->
            WithRows(d, s.table, d.tables[s.table].rows \o CopiedRows(d, s))
      [] s.sql = "DROP TABLE" ->
            [d EXCEPT !.tables = [n \in DOMAIN d.tables \ {s.table} |-> d.tables[n]],
                      !.indices = {i \in d.indices : i.tableName # s.table}]
      [] s.sql = "ALTER TABLE RENAME" ->
            [d EXCEPT !.tables = [n \in (DOMAIN d.tables \ {s.table}) \cup {s.to} |->
                                     IF n = s.to THEN d.tables[s.table] ELSE d.tables[n]],
                      !.indices = {IF i.tableName = s.table
                                   THEN [i EXCEPT !.tableName = s.to] ELSE i : i \in d.indices}]
      [] s.sql = "CREATE INDEX" ->
            [d EXCEPT !.indices = @ \cup {Index(s.table, s.name, s.columnNames, s.unique)}]
      [] s.sql = "DROP INDEX" ->
            [d EXCEPT !.indices = {i \in @ : i.name # s.name}]
      [] s.sql = "INSERT" ->
            WithRows(d, s.table,
                     Append(d.tables[s.table].rows,
                            StoredRow(d.tables[s.table], s.columns, s.parameters,
                                      Len(d.tables[s.table].rows) + 1)))
      [] s.sql = "UPDATE" ->
            WithRows(d, s.table,
                     [k \in DOMAIN d.tables[s.table].rows |->
                         LET row == d.tables[s.table].rows[k]
                         IN  IF Matches(row, s.where)
                             THEN [i \in DOMAIN row |->
                                      IF row[i].name \in Range(Names(s.set))
                                      THEN [row[i] EXCEPT !.value = RowValue(s.set, row[i].name)]
                                      ELSE row[i]]
                             ELSE row])
      [] s.sql = "DELETE" ->
            WithRows(d, s.table,
                     SelectSeq(d.tables[s.table].rows, LAMBDA r : ~Matches(r, s.where)))
      [] s.sql = "INSERT CLOSURE" ->
            WithRows(d, s.table, d.tables[s.table].rows \o ClosureRows(d, s))
      [] s.sql = "BEGIN TRANSACTION" ->
            [d EXCEPT !.saved = <<[tables |-> d.tables, indices |-> d.indices]>>]
      [] s.sql = "COMMIT" -> [d EXCEPT !.saved = <<>>]
      [] s.sql = "ROLLBACK" ->
            [tables |-> d.saved[1].tables, indices |-> d.saved[1].indices, saved |-> <<>>]
      [] OTHER -> d

\* the rows the engine returns (result.rows turned into an array by query())
ResultRows(d, s) ==
    CASE s.sql = "SELECT *" -> d.tables[s.table].rows
      [] s.sql = "SELECT DROPS" ->
            LET names == Listed(CatalogOrder, DOMAIN d.tables)
            IN  [k \in DOMAIN names |-> [query |-> DropTableSql(names[k])]]
      [] s.sql = "SELECT sqlite_master" ->
            LET names == Listed(CatalogOrder, DOMAIN d.tables)
            IN  [k \in DOMAIN names |->
                    [name |-> names[k], sql |-> TableSql(names[k], d.tables[names[k]])]]
      [] s.sql = "PRAGMA table_info" ->
            [i \in DOMAIN d.tables[s.table].columns |->
                LET column == d.tables[s.table].columns[i]
                IN  [name |-> column.name, type |-> "type",
                     notnull |-> IF column.notNull THEN 1 ELSE 0,
                     dflt_value |-> NULL,
                     pk |-> PkPosition(d.tables[s.table], column)]]
      [] s.sql = "PRAGMA index_list" ->
            [i \in DOMAIN IndexList(d, s.table) |->
                [name |-> IndexList(d, s.table)[i].name,
                 unique |-> IndexList(d, s.table)[i].unique,
                 origin |-> IndexList(d, s.table)[i].origin]]
      [] s.sql = "PRAGMA foreign_key_list" ->
            Flatten([i \in DOMAIN d.tables[s.table].foreignKeys |->
                        LET fk == d.tables[s.table].foreignKeys[i]
                        IN  [j \in DOMAIN fk.columnNames |->
                                [from |-> fk.columnNames[j], to |-> fk.referencedColumnNames[j],
                                 table |-> fk.referencedTableName, on_delete |-> "NO ACTION"]]])
      [] s.sql = "PRAGMA index_info" ->
            LET index == CHOOSE i \in AllIndices(d) : i.name = s.name
            IN  [j \in DOMAIN index.columnNames |-> [name |-> index.columnNames[j]]]
      [] s.sql = "SELECT MAX(level)" ->
            LET levels == {RowValue(r, "level") :
                              r \in {x \in Range(d.tables[s.table].rows) :
                                         RowValue(x, "descendant") = s.parentId}}
            IN  << <<[name |-> "level",
                      value |-> IF levels = {} THEN NULL
                                ELSE CHOOSE m \in levels : \A l \in levels : l <= m]>> >>
      [] OTHER -> <<>>

----------------------------------------------------------------------------
(* The runner: promises, query() and the statements in flight *)

QueryRunnerAlreadyReleasedError == [error |-> "QueryRunnerAlreadyReleasedError"]
TransactionAlreadyStartedError == [error |-> "TransactionAlreadyStartedError"]
TransactionNotStartedError == [error |-> "TransactionNotStartedError"]

\* the error object executeSql rejects with for a statement
EngineError(s) == [error |-> "SQLError", statement |-> s]

NoCall == [id |-> 0, name |-> "none", args |-> <<>>, pc |-> "done",
           tableSchema |-> <<>>, recreations |-> 0, awaiting |-> 0, partial |-> <<>>,
           before |-> <<>>]

NoLog == [queries |-> <<>>, failedQueries |-> <<>>, errors |-> <<>>]

Pending == [state |-> "pending", value |-> <<>>]
Resolved(value) == [state |-> "resolved", value |-> value]
Rejected(error) == [state |-> "rejected", error |-> error]

\* the caller awaits each operation before calling the next one
CanCall == outcome.state # "pending" /\ calls < MaxCalls

NewCall(name, args) == [NoCall EXCEPT !.id = calls + 1, !.name = name, !.args = args]

\* the statements as query() hands them to the connection, for the running call
InFlight(id, stmts) == [i \in DOMAIN stmts |-> [call |-> id, statement |-> stmts[i]]]

\* an operation called on a released runner: throws before anything else
Throws(name, args, error) ==
    /\ call' = NewCall(name, args)
    /\ outcome' = Rejected(error)
    /\ logger' = NoLog
    /\ calls' = calls + 1
    /\ UNCHANGED <<isReleased, db, pending, released, faults>>

\* the synchronous part of an operation up to its first await: query() logs the
\* statements and registers them on the connection promise
Begins(c, stmts) ==
    /\ call' = c
    /\ outcome' = Pending
    /\ pending' = pending \o InFlight(c.id, stmts)
    /\ logger' = [NoLog EXCEPT !.queries = InFlight(c.id, stmts)]
    /\ calls' = calls + 1
    /\ UNCHANGED <<isReleased, db, released, faults>>

\* the head statement belongs to the running call, which waits at position pc
Awaited(pc) ==
    /\ pending # <<>>
    /\ databaseConnection.connection = "resolved"
    /\ outcome.state = "pending"
    /\ Head(pending).call = call.id
    /\ call.pc = pc
    /\ Executable(db, Head(pending).statement)

\* the handler goes on after an await: query() throws on a released runner,
\* otherwise the next statements are logged and handed to the connection
Continues(c, stmts) ==
    IF isReleased /\ stmts # <<>>
    THEN /\ call' = [c EXCEPT !.pc = "done", !.awaiting = 0]
         /\ outcome' = Rejected(QueryRunnerAlreadyReleasedError)
         /\ pending' = Tail(pending)
         /\ UNCHANGED logger
    ELSE /\ call' = c
         /\ outcome' = Pending
         /\ pending' = Tail(pending) \o InFlight(c.id, stmts)
         /\ logger' = [logger EXCEPT !.queries = @ \o InFlight(c.id, stmts)]

\* the handler returns: the promise of the operation resolves
Returns(value) ==
    /\ call' = [call EXCEPT !.pc = "done", !.awaiting = 0]
    /\ outcome' = Resolved(value)
    /\ pending' = Tail(pending)
    /\ UNCHANGED logger

\* mutant of Release: the runner is marked released whether or not the connection
\* has a release callback
ReleaseWithoutCallback ==
    /\ released.calls < MaxReleases
    /\ isReleased' = TRUE
    /\ released' = IF databaseConnection.releaseCallback
                   THEN [calls |-> released.calls + 1,
                         callbacks |-> released.callbacks + 1]
                   ELSE [released EXCEPT !.calls = @ + 1]
    /\ UNCHANGED <<databaseConnection, db, pending, logger, call, outcome, calls, faults>>

\* release()
Release ==
    /\ released.calls < MaxReleases
    /\ IF databaseConnection.releaseCallback
       THEN /\ isReleased' = TRUE
            /\ released' = [calls |-> released.calls + 1,
                            callbacks |-> released.callbacks + 1]
       ELSE /\ isReleased' = isReleased
            /\ released' = [released EXCEPT !.calls = @ + 1]
    /\ UNCHANGED <<databaseConnection, db, pending, logger, call, outcome, calls, faults>>

\* mutant of ExecuteSqlFails: the failure is logged but the promise never fails
ExecuteSqlFailsSilently ==
    /\ pending # <<>>
    /\ databaseConnection.connection = "resolved"
    /\ \/ ~Executable(db, Head(pending).statement) /\ faults' = faults
       \/ /\ Executable(db, Head(pending).statement)
          /\ faults < MaxFaults
          /\ faults' = faults + 1
    /\ pending' = Tail(pending)
    /\ logger' = [logger EXCEPT
                     !.failedQueries = Append(@, Head(pending)),
                     !.errors = Append(@, EngineError(Head(pending).statement))]
    /\ UNCHANGED <<isReleased, databaseConnection, db, released, calls, outcome, call>>

\* mutant of ExecuteSqlFails: the catch handler logs the failure and hands the
\* statement to the connection once more
ExecuteSqlFailsRetries ==
    /\ pending # <<>>
    /\ databaseConnection.connection = "resolved"
    /\ \/ ~Executable(db, Head(pending).statement) /\ faults' = faults
       \/ /\ Executable(db, Head(pending).statement)
          /\ faults < MaxFaults
          /\ faults' = faults + 1
    /\ pending' = Append(Tail(pending), Head(pending))
    /\ logger' = [logger EXCEPT
                     !.failedQueries = Append(@, Head(pending)),
                     !.errors = Append(@, EngineError(Head(pending).statement))]
    /\ UNCHANGED <<isReleased, databaseConnection, db, released, calls, outcome, call>>

\* mutant of ExecuteSqlFails: the catch handler logs and then resolves the promise
\* with the error instead of rejecting it
ExecuteSqlFailsResolves ==
    /\ pending # <<>>
    /\ databaseConnection.connection = "resolved"
    /\ \/ ~Executable(db, Head(pending).statement) /\ faults' = faults
       \/ /\ Executable(db, Head(pending).statement)
          /\ faults < MaxFaults
          /\ faults' = faults + 1
    /\ pending' = Tail(pending)
    /\ logger' = [logger EXCEPT
                     !.failedQueries = Append(@, Head(pending)),
                     !.errors = Append(@, EngineError(Head(pending).statement))]
    /\ IF outcome.state = "pending" /\ Head(pending).call = call.id
       THEN /\ outcome' = Resolved(EngineError(Head(pending).statement))
            /\ call' = [call EXCEPT !.pc = "done", !.awaiting = 0]
       ELSE UNCHANGED <<outcome, call>>
    /\ UNCHANGED <<isReleased, databaseConnection, db, released, calls>>

\* executeSql rejects: query() logs the failed statement and the error and fails
\* with the error; the operation awaiting the statement rejects with it
ExecuteSqlFails ==
    /\ pending # <<>>
    /\ databaseConnection.connection = "resolved"
    /\ \/ ~Executable(db, Head(pending).statement) /\ faults' = faults
       \/ /\ Executable(db, Head(pending).statement)
          /\ faults < MaxFaults
          /\ faults' = faults + 1
    /\ pending' = Tail(pending)
    /\ logger' = [logger EXCEPT
                     !.failedQueries = Append(@, Head(pending)),
                     !.errors = Append(@, EngineError(Head(pending).statement))]
    /\ IF outcome.state = "pending" /\ Head(pending).call = call.id
       THEN /\ outcome' = Rejected(EngineError(Head(pending).statement))
            /\ call' = [call EXCEPT !.pc = "done", !.awaiting = 0]
       ELSE UNCHANGED <<outcome, call>>
    /\ UNCHANGED <<isReleased, databaseConnection, db, released, calls>>

\* mutant of ExecuteSqlUnawaited: a statement whose operation has already
\* rejected is cancelled, it leaves the connection without being executed
ExecuteSqlUnawaitedCancels ==
    /\ pending # <<>>
    /\ databaseConnection.connection = "resolved"
    /\ outcome.state # "pending" \/ Head(pending).call # call.id
    /\ Executable(db, Head(pending).statement)
    /\ pending' = Tail(pending)
    /\ UNCHANGED <<isReleased, databaseConnection, db, logger, call, outcome, released,
                   calls, faults>>

\* executeSql succeeds for a statement whose operation has already rejected
\* (the other members of a Promise.all): nobody awaits the result
ExecuteSqlUnawaited ==
    /\ pending # <<>>
    /\ databaseConnection.connection = "resolved"
    /\ outcome.state # "pending" \/ Head(pending).call # call.id
    /\ Executable(db, Head(pending).statement)
    /\ db' = Effect(db, Head(pending).statement)
    /\ pending' = Tail(pending)
    /\ UNCHANGED <<isReleased, databaseConnection, logger, call, outcome, released, calls, faults>>

----------------------------------------------------------------------------
(* recreateTable *)

\* mutant of Recreates: a temporary table that is already there is reused, the
\* sequence starts at the SELECT
RecreatesReusing(name, args, tableSchema) ==
    IF TemporaryName(tableSchema.name) \in DOMAIN db.tables
    THEN Begins([NewCall(name, args) EXCEPT !.pc = "firstDatas", !.tableSchema = tableSchema,
                                            !.recreations = 1, !.before = db],
                <<SelectAllSql(tableSchema.name)>>)
    ELSE Begins([NewCall(name, args) EXCEPT !.pc = "sql1", !.tableSchema = tableSchema,
                                            !.recreations = 1, !.before = db],
                <<CreateTemporaryTableSql(tableSchema)>>)

\* recreateTable up to its first await: sql1 is built and handed to query()
\* (the call keeps the database it was made on, to compare the result with)
Recreates(name, args, tableSchema) ==
    Begins([NewCall(name, args) EXCEPT !.pc = "sql1", !.tableSchema = tableSchema,
                                       !.recreations = 1, !.before = db],
           <<CreateTemporaryTableSql(tableSchema)>>)

\* await this.query(sql1) returned: SELECT * FROM "<name>"
RecreateStaged ==
    /\ Awaited("sql1")
    /\ db' = Effect(db, Head(pending).statement)
    /\ Continues([call EXCEPT !.pc = "firstDatas"], <<SelectAllSql(call.tableSchema.name)>>)
    /\ UNCHANGED <<isReleased, databaseConnection, released, calls, faults>>

\* mutant of RecreateProbed: the copy is issued for a table without rows too
RecreateProbedAlwaysCopies ==
    /\ Awaited("firstDatas")
    /\ db' = Effect(db, Head(pending).statement)
    /\ LET firstDatas == ResultRows(db, Head(pending).statement)
       IN  Continues([call EXCEPT !.pc = "sql2"],
                     <<InsertSelectSql(call.tableSchema.name,
                                       IF Len(firstDatas) > 0
                                       THEN colInTwiceArr(firstDatas[1], call.tableSchema)
                                       ELSE <<>>)>>)
    /\ UNCHANGED <<isReleased, databaseConnection, released, calls, faults>>

\* mutant of RecreateProbed: the copy is left out, the drop follows the probe
RecreateProbedNeverCopies ==
    /\ Awaited("firstDatas")
    /\ db' = Effect(db, Head(pending).statement)
    /\ Continues([call EXCEPT !.pc = "sql3"], <<DropTableSql(call.tableSchema.name)>>)
    /\ UNCHANGED <<isReleased, databaseConnection, released, calls, faults>>

\* firstDatas returned: with rows, sql2 (the copy); without, sql3 (the drop)
RecreateProbed ==
    /\ Awaited("firstDatas")
    /\ db' = Effect(db, Head(pending).statement)
    /\ LET firstDatas == ResultRows(db, Head(pending).statement)
       IN  IF Len(firstDatas) > 0
           THEN Continues([call EXCEPT !.pc = "sql2"],
                          <<InsertSelectSql(call.tableSchema.name,
                                            colInTwiceArr(firstDatas[1], call.tableSchema))>>)
           ELSE Continues([call EXCEPT !.pc = "sql3"],
                          <<DropTableSql(call.tableSchema.name)>>)
    /\ UNCHANGED <<isReleased, databaseConnection, released, calls, faults>>

\* await this.query(sql2) returned: DROP TABLE "<name>"
RecreateCopied ==
    /\ Awaited("sql2")
    /\ db' = Effect(db, Head(pending).statement)
    /\ Continues([call EXCEPT !.pc = "sql3"], <<DropTableSql(call.tableSchema.name)>>)
    /\ UNCHANGED <<isReleased, databaseConnection, released, calls, faults>>

\* mutant of RecreateDropped: the indices are created without awaiting the rename
RecreateDroppedNoAwait ==
    /\ Awaited("sql3")
    /\ db' = Effect(db, Head(pending).statement)
    /\ Continues([call EXCEPT !.pc = "sql4"],
                 <<RenameTableSql(call.tableSchema.name)>>
                    \o [i \in DOMAIN call.tableSchema.indices |->
                           CreateIndexSql(call.tableSchema.indices[i])])
    /\ UNCHANGED <<isReleased, databaseConnection, released, calls, faults>>

\* await this.query(sql3) returned: ALTER TABLE "temporary_<name>" RENAME TO "<name>"
RecreateDropped ==
    /\ Awaited("sql3")
    /\ db' = Effect(db, Head(pending).statement)
    /\ Continues([call EXCEPT !.pc = "sql4"], <<RenameTableSql(call.tableSchema.name)>>)
    /\ UNCHANGED <<isReleased, databaseConnection, released, calls, faults>>

\* mutant of indexPromises: only the first index of the descriptor is re-created
indexPromisesFirstOnly(tableSchema) ==
    [i \in DOMAIN tableSchema.indices \cap {1} |-> CreateIndexSql(tableSchema.indices[i])]

\* the CREATE INDEX statements of tableSchema.indices.map(index => this.createIndex(index))
indexPromises(tableSchema) ==
    [i \in DOMAIN tableSchema.indices |-> CreateIndexSql(tableSchema.indices[i])]

\* await this.query(sql4) returned: every createIndex is called, Promise.all awaits them
RecreateRenamed ==
    /\ Awaited("sql4")
    /\ db' = Effect(db, Head(pending).statement)
    /\ IF indexPromises(call.tableSchema) = <<>>
       THEN Returns(<<>>)
       ELSE Continues([call EXCEPT !.pc = "indexPromises",
                                   !.awaiting = Len(indexPromises(call.tableSchema))],
                      indexPromises(call.tableSchema))
    /\ UNCHANGED <<isReleased, databaseConnection, released, calls, faults>>

\* one createIndex resolved; Promise.all resolves with the last of them
RecreateIndexCreated ==
    /\ Awaited("indexPromises")
    /\ db' = Effect(db, Head(pending).statement)
    /\ IF call.awaiting = 1
       THEN Returns(<<>>)
       ELSE /\ call' = [call EXCEPT !.awaiting = @ - 1]
            /\ pending' = Tail(pending)
            /\ UNCHANGED <<outcome, logger>>
    /\ UNCHANGED <<isReleased, databaseConnection, released, calls, faults>>

\* changeColumns(tableSchema, changedColumns)
ChangeColumns(tableSchema, changedColumns) ==
    /\ CanCall
    /\ IF isReleased
       THEN Throws("changeColumns", <<tableSchema, changedColumns>>,
                   QueryRunnerAlreadyReleasedError)
       ELSE Recreates("changeColumns", <<tableSchema, changedColumns>>, tableSchema)
    /\ UNCHANGED databaseConnection

\* updatePrimaryKeys(dbTable)
UpdatePrimaryKeys(dbTable) ==
    /\ CanCall
    /\ IF isReleased
       THEN Throws("updatePrimaryKeys", <<dbTable>>, QueryRunnerAlreadyReleasedError)
       ELSE Recreates("updatePrimaryKeys", <<dbTable>>, dbTable)
    /\ UNCHANGED databaseConnection

----------------------------------------------------------------------------
(* query, insert, update, delete, createTable, createIndex, dropIndex *)

\* query(query, parameters)
Query(statement) ==
    /\ CanCall
    /\ IF isReleased
       THEN Throws("query", <<statement>>, QueryRunnerAlreadyReleasedError)
       ELSE Begins([NewCall("query", <<statement>>) EXCEPT !.pc = "query"], <<statement>>)
    /\ UNCHANGED databaseConnection

\* ok(sqlResultSetRowListArray) / ok(result)
QueryReturned ==
    /\ Awaited("query")
    /\ db' = Effect(db, Head(pending).statement)
    /\ Returns(ResultRows(db, Head(pending).statement))
    /\ UNCHANGED <<isReleased, databaseConnection, released, calls, faults>>

\* insert(tableName, keyValues, generatedColumn)
Insert(tableName, keyValues, generatedColumn) ==
    /\ CanCall
    /\ IF isReleased
       THEN Throws("insert", <<tableName, keyValues, generatedColumn>>,
                   QueryRunnerAlreadyReleasedError)
       ELSE Begins([NewCall("insert", <<tableName, keyValues, generatedColumn>>)
                       EXCEPT !.pc = "insert"],
                   <<InsertSql(tableName, keyValues)>>)
    /\ UNCHANGED databaseConnection

\* ok(result["insertId"]) with a generated column, ok() without
InsertReturned ==
    /\ Awaited("insert")
    /\ db' = Effect(db, Head(pending).statement)
    /\ Returns(IF call.args[3] THEN <<Len(db'.tables[call.args[1]].rows)>> ELSE <<>>)
    /\ UNCHANGED <<isReleased, databaseConnection, released, calls, faults>>

\* an operation that awaits one statement and returns nothing
\* mutant of Awaits: the operation does not look at isReleased
AwaitsUnchecked(name, args, statement) ==
    /\ CanCall
    /\ Begins([NewCall(name, args) EXCEPT !.pc = "await"], <<statement>>)
    /\ UNCHANGED databaseConnection

\* update, delete, createTable, createIndex, dropIndex: the released check, then
\* one statement handed to query() and awaited
Awaits(name, args, statement) ==
    /\ CanCall
    /\ IF isReleased
       THEN Throws(name, args, QueryRunnerAlreadyReleasedError)
       ELSE Begins([NewCall(name, args) EXCEPT !.pc = "await"], <<statement>>)
    /\ UNCHANGED databaseConnection

\* update(tableName, valuesMap, conditions)
Update(tableName, valuesMap, conditions) ==
    Awaits("update", <<tableName, valuesMap, conditions>>,
           UpdateSql(tableName, valuesMap, conditions))

\* delete(tableName, conditions)
Delete(tableName, conditions) ==
    Awaits("delete", <<tableName, conditions>>, DeleteSql(tableName, conditions))

\* createTable(table)
CreateTable(table) == Awaits("createTable", <<table>>, CreateTableSql(table))

\* createIndex(index)
CreateIndex(index) == Awaits("createIndex", <<index>>, CreateIndexSql(index))

\* dropIndex(tableName, indexName)
DropIndex(tableName, indexName) ==
    Awaits("dropIndex", <<tableName, indexName>>, DropIndexSql(indexName))

\* await this.query(sql) returned in update, delete, createTable, createIndex, dropIndex
AwaitReturned ==
    /\ Awaited("await")
    /\ db' = Effect(db, Head(pending).statement)
    /\ Returns(<<>>)
    /\ UNCHANGED <<isReleased, databaseConnection, released, calls, faults>>

----------------------------------------------------------------------------
(* beginTransaction, commitTransaction, rollbackTransaction *)

BeginTransaction ==
    /\ CanCall
    /\ IF isReleased
       THEN /\ Throws("beginTransaction", <<>>, QueryRunnerAlreadyReleasedError)
            /\ UNCHANGED databaseConnection
       ELSE IF databaseConnection.isTransactionActive
       THEN /\ Throws("beginTransaction", <<>>, TransactionAlreadyStartedError)
            /\ UNCHANGED databaseConnection
       ELSE /\ databaseConnection' = [databaseConnection EXCEPT !.isTransactionActive = TRUE]
            /\ Begins([NewCall("beginTransaction", <<>>) EXCEPT !.pc = "await"], <<BeginSql>>)

\* mutant of EndsTransaction: the transaction flag is not looked at
EndsTransactionUnchecked(name, statement) ==
    /\ CanCall
    /\ IF isReleased
       THEN Throws(name, <<>>, QueryRunnerAlreadyReleasedError)
       ELSE Begins([NewCall(name, <<>>) EXCEPT !.pc = name], <<statement>>)
    /\ UNCHANGED databaseConnection

\* commitTransaction and rollbackTransaction up to the await
EndsTransaction(name, statement) ==
    /\ CanCall
    /\ IF isReleased
       THEN Throws(name, <<>>, QueryRunnerAlreadyReleasedError)
       ELSE IF ~databaseConnection.isTransactionActive
       THEN Throws(name, <<>>, TransactionNotStartedError)
       ELSE Begins([NewCall(name, <<>>) EXCEPT !.pc = name], <<statement>>)
    /\ UNCHANGED databaseConnection

CommitTransaction == EndsTransaction("commitTransaction", CommitSql)

RollbackTransaction == EndsTransaction("rollbackTransaction", RollbackSql)

\* await this.query("COMMIT") returned
CommitReturned ==
    /\ Awaited("commitTransaction")
    /\ db' = Effect(db, Head(pending).statement)
    /\ databaseConnection' = [databaseConnection EXCEPT !.isTransactionActive = FALSE]
    /\ Returns(<<>>)
    /\ UNCHANGED <<isReleased, released, calls, faults>>

\* await this.query("ROLLBACK") returned
RollbackReturned ==
    /\ Awaited("rollbackTransaction")
    /\ db' = Effect(db, Head(pending).statement)
    /\ databaseConnection' = [databaseConnection EXCEPT !.isTransactionActive = FALSE]
    /\ Returns(<<>>)
    /\ UNCHANGED <<isReleased, released, calls, faults>>

----------------------------------------------------------------------------
(* insertIntoClosureTable, clearDatabase *)

\* mutant of InsertIntoClosureTable: the level query is issued without awaiting
\* the insert
InsertIntoClosureTableNoAwait(tableName, newEntityId, parentId, hasLevel) ==
    /\ CanCall
    /\ IF isReleased
       THEN Throws("insertIntoClosureTable", <<tableName, newEntityId, parentId, hasLevel>>,
                   QueryRunnerAlreadyReleasedError)
       ELSE Begins([NewCall("insertIntoClosureTable",
                            <<tableName, newEntityId, parentId, hasLevel>>)
                       EXCEPT !.pc = "closure"],
                   <<ClosureInsertSql(tableName, newEntityId, parentId, hasLevel),
                     MaxLevelSql(tableName, parentId)>>)
    /\ UNCHANGED databaseConnection

\* insertIntoClosureTable(tableName, newEntityId, parentId, hasLevel)
InsertIntoClosureTable(tableName, newEntityId, parentId, hasLevel) ==
    /\ CanCall
    /\ IF isReleased
       THEN Throws("insertIntoClosureTable", <<tableName, newEntityId, parentId, hasLevel>>,
                   QueryRunnerAlreadyReleasedError)
       ELSE Begins([NewCall("insertIntoClosureTable",
                            <<tableName, newEntityId, parentId, hasLevel>>)
                       EXCEPT !.pc = "closure"],
                   <<ClosureInsertSql(tableName, newEntityId, parentId, hasLevel)>>)
    /\ UNCHANGED databaseConnection

\* await this.query(sql) returned: SELECT MAX(level) ...
ClosureInserted ==
    /\ Awaited("closure")
    /\ db' = Effect(db, Head(pending).statement)
    /\ Continues([call EXCEPT !.pc = "level"], <<MaxLevelSql(call.args[1], call.args[3])>>)
    /\ UNCHANGED <<isReleased, databaseConnection, released, calls, faults>>

\* results returned: results[0]["level"] ? parseInt(results[0]["level"]) + 1 : 1
ClosureLevelReturned ==
    /\ Awaited("level")
    /\ db' = Effect(db, Head(pending).statement)
    /\ LET results == ResultRows(db, Head(pending).statement)
       IN  Returns(IF results # <<>> /\ RowValue(results[1], "level") # NULL
                   THEN <<RowValue(results[1], "level") + 1>> ELSE <<1>>)
    /\ UNCHANGED <<isReleased, databaseConnection, released, calls, faults>>

ClearDatabase ==
    /\ CanCall
    /\ IF isReleased
       THEN Throws("clearDatabase", <<>>, QueryRunnerAlreadyReleasedError)
       ELSE Begins([NewCall("clearDatabase", <<>>) EXCEPT !.pc = "selectDrops"],
                   <<SelectDropsSql>>)
    /\ UNCHANGED databaseConnection

\* dropQueries returned: every drop is handed to query(), Promise.all awaits them
ClearSelected ==
    /\ Awaited("selectDrops")
    /\ db' = Effect(db, Head(pending).statement)
    /\ LET dropQueries == ResultRows(db, Head(pending).statement)
       IN  IF dropQueries = <<>>
           THEN Returns(<<>>)
           ELSE Continues([call EXCEPT !.pc = "drops", !.awaiting = Len(dropQueries)],
                          [i \in DOMAIN dropQueries |-> dropQueries[i].query])
    /\ UNCHANGED <<isReleased, databaseConnection, released, calls, faults>>

\* one drop returned; Promise.all resolves with the last of them
ClearDropped ==
    /\ Awaited("drops")
    /\ db' = Effect(db, Head(pending).statement)
    /\ IF call.awaiting = 1
       THEN Returns(<<>>)
       ELSE /\ call' = [call EXCEPT !.awaiting = @ - 1]
            /\ pending' = Tail(pending)
            /\ UNCHANGED <<outcome, logger>>
    /\ UNCHANGED <<isReleased, databaseConnection, released, calls, faults>>

----------------------------------------------------------------------------
(* createColumns, dropColumns, createForeignKeys, dropForeignKeys *)

\* TableSchema.clone
clone(tableSchema) == tableSchema

\* TableSchema.removeColumns
removeColumns(tableSchema, columns) ==
    [tableSchema EXCEPT !.columns =
        SelectSeq(@, LAMBDA c : c.name \notin Range(Names(columns)))]

\* TableSchema.addForeignKeys
addForeignKeys(tableSchema, foreignKeys) ==
    [tableSchema EXCEPT !.foreignKeys = @ \o foreignKeys]

\* TableSchema.removeForeignKeys
removeForeignKeys(tableSchema, foreignKeys) ==
    [tableSchema EXCEPT !.foreignKeys =
        SelectSeq(@, LAMBDA f : f.name \notin Range(Names(foreignKeys)))]

\* createColumns(tableSchema, columns)
CreateColumns(tableSchema, columns) ==
    /\ CanCall
    /\ IF isReleased
       THEN Throws("createColumns", <<tableSchema, columns>>, QueryRunnerAlreadyReleasedError)
       ELSE Recreates("createColumns", <<tableSchema, columns>>, tableSchema)
    /\ UNCHANGED databaseConnection

\* dropColumns(tableSchema, columns)
DropColumns(tableSchema, columns) ==
    /\ CanCall
    /\ IF isReleased
       THEN Throws("dropColumns", <<tableSchema, columns>>, QueryRunnerAlreadyReleasedError)
       ELSE Recreates("dropColumns", <<tableSchema, columns>>,
                      removeColumns(clone(tableSchema), columns))
    /\ UNCHANGED databaseConnection

\* createForeignKeys(tableSchema, foreignKeys)
CreateForeignKeys(tableSchema, foreignKeys) ==
    /\ CanCall
    /\ IF isReleased
       THEN Throws("createForeignKeys", <<tableSchema, foreignKeys>>,
                   QueryRunnerAlreadyReleasedError)
       ELSE Recreates("createForeignKeys", <<tableSchema, foreignKeys>>,
                      addForeignKeys(clone(tableSchema), foreignKeys))
    /\ UNCHANGED databaseConnection

\* dropForeignKeys(tableSchema, foreignKeys)
DropForeignKeys(tableSchema, foreignKeys) ==
    /\ CanCall
    /\ IF isReleased
       THEN Throws("dropForeignKeys", <<tableSchema, foreignKeys>>,
                   QueryRunnerAlreadyReleasedError)
       ELSE Recreates("dropForeignKeys", <<tableSchema, foreignKeys>>,
                      removeForeignKeys(clone(tableSchema), foreignKeys))
    /\ UNCHANGED databaseConnection

----------------------------------------------------------------------------
(* loadSchemaTables *)

\* String.prototype.indexOf / lastIndexOf on a token sequence, 0 when absent
IndexOf(text, token) ==
    IF token \in Range(text)
    THEN CHOOSE i \in DOMAIN text : text[i] = token /\ \A j \in 1..(i - 1) : text[j] # token
    ELSE 0

LastIndexOf(text, token) ==
    IF token \in Range(text)
    THEN CHOOSE i \in DOMAIN text : text[i] = token /\ \A j \in (i + 1)..Len(text) : text[j] # token
    ELSE 0

\* the text between the first and the last quote of a span
BetweenQuotes(span) ==
    LET cut == SubSeq(span, 1, LastIndexOf(span, "\"") - 1)
    IN  SubSeq(cut, IndexOf(cut, "\"") + 1, Len(cut))

\* mutant of autoIncrementColumnName: the span starts at the comma or the
\* bracket, whichever is closer to the keyword
autoIncrementColumnNameCloser(tableSql) ==
    IF IndexOf(tableSql, "AUTOINCREMENT") = 0 THEN <<>>
    ELSE LET prefix == SubSeq(tableSql, 1, IndexOf(tableSql, "AUTOINCREMENT") - 1)
             comma == LastIndexOf(prefix, ",")
             bracket == LastIndexOf(prefix, "(")
         IN  IF comma # 0 /\ comma > bracket
             THEN BetweenQuotes(SubSeq(prefix, comma, Len(prefix)))
             ELSE IF bracket # 0 THEN BetweenQuotes(SubSeq(prefix, bracket, Len(prefix)))
             ELSE prefix

\* the column name found before the AUTOINCREMENT keyword of the creation text
\* (the empty text when the keyword is absent)
autoIncrementColumnName(tableSql) ==
    IF IndexOf(tableSql, "AUTOINCREMENT") = 0 THEN <<>>
    ELSE LET prefix == SubSeq(tableSql, 1, IndexOf(tableSql, "AUTOINCREMENT") - 1)
             comma == LastIndexOf(prefix, ",")
             bracket == LastIndexOf(prefix, "(")
         IN  IF comma # 0 THEN BetweenQuotes(SubSeq(prefix, comma, Len(prefix)))
             ELSE IF bracket # 0 THEN BetweenQuotes(SubSeq(prefix, bracket, Len(prefix)))
             ELSE prefix

\* namingStrategy.foreignKeyName(tableName, [from], referencedTable, [to])
foreignKeyName(tableName, from, referencedTableName, to) ==
    "fk_" \o tableName \o "_" \o from \o "_" \o referencedTableName \o "_" \o to

\* JavaScript === between a number the engine returned and a string literal
StrictEqualsString(number, string) == FALSE

\* tableSchema.columns and the foreign keys added while mapping dbColumns
LoadedColumns(dbTable, dbColumns) ==
    [i \in DOMAIN dbColumns |->
        Column(dbColumns[i].name,
               dbColumns[i].notnull = 0,
               dbColumns[i].pk = 1,
               autoIncrementColumnName(dbTable.sql) = <<dbColumns[i].name>>,
               FALSE)]

LoadedForeignKeys(dbTable, dbColumns, dbForeignKeys) ==
    Flatten([i \in DOMAIN dbColumns |->
                LET own == SelectSeq(dbForeignKeys, LAMBDA f : f.from = dbColumns[i].name)
                IN  [j \in DOMAIN own |->
                        ForeignKey(foreignKeyName(dbTable.name, own[j].from, own[j].table, own[j].to),
                                   <<own[j].from>>, <<own[j].to>>, own[j].table)]])

\* self.indexOf(value) === index: the first occurrence of every element
RECURSIVE Unique(_)
Unique(names) ==
    IF names = <<>> THEN <<>>
    ELSE <<Head(names)>> \o Unique(SelectSeq(Tail(names), LAMBDA n : n # Head(names)))

\* one table of the Promise.all over dbTables, before its reflection queries return
LoadingTable(dbTable) ==
    [dbTable |-> dbTable, stage |-> "pragmas", got |-> <<>>, awaited |-> <<>>,
     schema |-> [Table(dbTable.name, <<>>, <<>>, <<>>) EXCEPT !.primaryKeys = <<>>],
     dbIndices |-> <<>>, loaded |-> <<>>]

\* the index schemas are loaded: tableSchema.indices = indices.filter(index => !!index)
ToDone(ts) ==
    [state |-> [ts EXCEPT !.stage = "done", !.awaited = <<>>,
                          !.schema.indices = Flatten(ts.loaded)],
     issue |-> <<>>]

\* the primary keys are loaded: PRAGMA index_info of every other index that does
\* not carry the name of a foreign key or of a primary key
ToIndices(ts) ==
    LET kept == SelectSeq(ts.dbIndices, LAMBDA x :
                    /\ x.origin # "pk"
                    /\ x.name \notin Range(Names(ts.schema.foreignKeys))
                    /\ x.name \notin Range(Names(ts.schema.primaryKeys)))
        names == Unique(Names(kept))
    IN  IF names = <<>> THEN ToDone(ts)
        ELSE [state |-> [ts EXCEPT !.stage = "indices", !.awaited = names],
              issue |-> [i \in DOMAIN names |-> IndexInfoSql(names[i])]]

\* the three reflection queries returned: columns and foreign keys are built,
\* then PRAGMA index_info of every index of origin pk
ToPrimaryKeys(ts, dbColumns, dbIndices, dbForeignKeys) ==
    LET built == [ts EXCEPT
                     !.schema.columns = LoadedColumns(ts.dbTable, dbColumns),
                     !.schema.foreignKeys = LoadedForeignKeys(ts.dbTable, dbColumns, dbForeignKeys),
                     !.dbIndices = dbIndices, !.got = <<>>]
        pk == Names(SelectSeq(dbIndices, LAMBDA x : x.origin = "pk"))
    IN  IF pk = <<>> THEN ToIndices(built)
        ELSE [state |-> [built EXCEPT !.stage = "pk", !.awaited = pk],
              issue |-> [i \in DOMAIN pk |-> IndexInfoSql(pk[i])]]

\* one PRAGMA index_info of the primary key returned
PrimaryKeyLoaded(ts, indexName, indexInfos) ==
    LET next == [ts EXCEPT
                    !.schema.primaryKeys =
                        @ \o [i \in DOMAIN indexInfos |-> PrimaryKey(indexName, indexInfos[i].name)],
                    !.awaited = Tail(@)]
    IN  IF next.awaited = <<>> THEN ToIndices(next) ELSE [state |-> next, issue |-> <<>>]

\* name.substr(0, "sqlite_autoindex".length) === "sqlite_autoindex", decided over
\* the index names a database of the model can hold
StartsWithSqliteAutoindex(name) ==
    name \in {"sqlite_autoindex_" \o table \o "_" \o ToString(n) :
                 table \in Range(CatalogOrder), n \in 1..4}

\* one PRAGMA index_info of another index returned: an index the engine made
\* by itself marks its columns unique when it is unique and yields no index
\* schema, any other index becomes an IndexSchema
IndexLoaded(ts, indexName, indexInfos) ==
    LET dbIndex == ts.dbIndices[CHOOSE i \in DOMAIN ts.dbIndices :
                                    /\ ts.dbIndices[i].name = indexName
                                    /\ \A j \in 1..(i - 1) : ts.dbIndices[j].name # indexName]
        indexColumns == Names(indexInfos)
        next == IF StartsWithSqliteAutoindex(dbIndex.name)
                THEN [ts EXCEPT
                         !.schema.columns =
                             [i \in DOMAIN @ |->
                                 IF dbIndex.unique = 1 /\ @[i].name \in Range(indexColumns)
                                 THEN [@[i] EXCEPT !.isUnique = TRUE] ELSE @[i]],
                         !.loaded = Append(@, <<>>),
                         !.awaited = Tail(@)]
                ELSE [ts EXCEPT
                         !.loaded = Append(@, <<Index(ts.dbTable.name, dbIndex.name, indexColumns,
                                                      StrictEqualsString(dbIndex.unique, "1"))>>),
                         !.awaited = Tail(@)]
    IN  IF next.awaited = <<>> THEN ToDone(next) ELSE [state |-> next, issue |-> <<>>]

\* the array Promise.all resolves with once every table is loaded
LoadedSchemas(tables) == [i \in DOMAIN tables |-> tables[i].schema]

AllLoaded(tables) == \A i \in DOMAIN tables : tables[i].stage = "done"

\* mutant of LoadSchemaTables: the catalog is queried for an empty list as well
LoadSchemaTablesAlwaysQueries(tableNames) ==
    /\ CanCall
    /\ IF isReleased
       THEN Throws("loadSchemaTables", <<tableNames>>, QueryRunnerAlreadyReleasedError)
       ELSE Begins([NewCall("loadSchemaTables", <<tableNames>>) EXCEPT !.pc = "dbTables"],
                   <<MasterSql>>)
    /\ UNCHANGED databaseConnection

\* loadSchemaTables(tableNames, namingStrategy)
LoadSchemaTables(tableNames) ==
    /\ CanCall
    /\ IF isReleased
       THEN Throws("loadSchemaTables", <<tableNames>>, QueryRunnerAlreadyReleasedError)
       ELSE IF Len(tableNames) = 0
       THEN /\ call' = NewCall("loadSchemaTables", <<tableNames>>)
            /\ outcome' = Resolved(<<>>)
            /\ logger' = NoLog
            /\ calls' = calls + 1
            /\ UNCHANGED <<isReleased, db, pending, released, faults>>
       ELSE Begins([NewCall("loadSchemaTables", <<tableNames>>) EXCEPT !.pc = "dbTables"],
                   <<MasterSql>>)
    /\ UNCHANGED databaseConnection

\* the running call after one of its loading tables has moved on
LoadStep(i, step) ==
    LET tables == [call.partial EXCEPT ![i] = step.state]
    IN  IF step.issue = <<>> /\ AllLoaded(tables)
        THEN /\ call' = [call EXCEPT !.pc = "done", !.partial = tables]
             /\ outcome' = Resolved(LoadedSchemas(tables))
             /\ pending' = Tail(pending)
             /\ UNCHANGED logger
        ELSE Continues([call EXCEPT !.partial = tables], step.issue)

\* dbTables returned: for every table the three reflection queries are issued
LoadListed ==
    /\ Awaited("dbTables")
    /\ db' = Effect(db, Head(pending).statement)
    /\ LET dbTables == ResultRows(db, Head(pending).statement)
       IN  IF Len(dbTables) = 0
           THEN Returns(<<>>)
           ELSE Continues([call EXCEPT !.pc = "tables",
                                       !.partial = [i \in DOMAIN dbTables |->
                                                       LoadingTable(dbTables[i])]],
                          Flatten([i \in DOMAIN dbTables |->
                                      <<TableInfoSql(dbTables[i].name),
                                        IndexListSql(dbTables[i].name),
                                        ForeignKeyListSql(dbTables[i].name)>>]))
    /\ UNCHANGED <<isReleased, databaseConnection, released, calls, faults>>

\* table_info, index_list or foreign_key_list of a table returned; with the
\* third of them the Promise.all of the table resolves
LoadReflected ==
    /\ Awaited("tables")
    /\ Head(pending).statement.sql
          \in {"PRAGMA table_info", "PRAGMA index_list", "PRAGMA foreign_key_list"}
    /\ db' = Effect(db, Head(pending).statement)
    /\ LET s == Head(pending).statement
           i == CHOOSE k \in DOMAIN call.partial : call.partial[k].dbTable.name = s.table
           ts == call.partial[i]
           got == Append(ts.got, ResultRows(db, s))
       IN  IF Len(got) < 3
           THEN LoadStep(i, [state |-> [ts EXCEPT !.got = got], issue |-> <<>>])
           ELSE LoadStep(i, ToPrimaryKeys(ts, got[1], got[2], got[3]))
    /\ UNCHANGED <<isReleased, databaseConnection, released, calls, faults>>

\* a PRAGMA index_info returned, for the primary key or for another index
LoadIndexInfo ==
    /\ Awaited("tables")
    /\ Head(pending).statement.sql = "PRAGMA index_info"
    /\ db' = Effect(db, Head(pending).statement)
    /\ LET s == Head(pending).statement
           i == CHOOSE k \in DOMAIN call.partial :
                    /\ call.partial[k].awaited # <<>>
                    /\ Head(call.partial[k].awaited) = s.name
           ts == call.partial[i]
       IN  IF ts.stage = "pk"
           THEN LoadStep(i, PrimaryKeyLoaded(ts, s.name, ResultRows(db, s)))
           ELSE LoadStep(i, IndexLoaded(ts, s.name, ResultRows(db, s)))
    /\ UNCHANGED <<isReleased, databaseConnection, released, calls, faults>>

----------------------------------------------------------------------------
(* Inputs: the table descriptors handed to the runner, the databases at start *)

ColA == Column("a", FALSE, FALSE, FALSE, FALSE)
ColB == Column("b", TRUE, FALSE, FALSE, FALSE)
ColC == Column("c", TRUE, FALSE, FALSE, FALSE)

IndexA == Index("t", "ia", <<"a">>, FALSE)
IndexB == Index("t", "ib", <<"b">>, FALSE)
IndexAB == Index("t", "iab", <<"a", "b">>, TRUE)

ForeignKeyB == ForeignKey("fk_t_b", <<"b">>, <<"id">>, "u")

\* the descriptor of table t as it exists at the start
StoredT == Table("t", <<ColA, ColB>>, <<>>, <<IndexA>>)

\* the target descriptors of a recreation of t
Targets ==
    { StoredT,
      \* drop a, add c
      Table("t", <<ColB, ColC>>, <<>>, <<IndexB>>),
      \* drop a, add a NOT NULL column c
      Table("t", <<ColB, [ColC EXCEPT !.isNullable = FALSE]>>, <<>>, <<>>),
      \* no column shared with the stored table
      Table("t", <<ColC>>, <<>>, <<>>),
      \* columns in another order, a primary key, a foreign key, two indices
      Table("t", <<ColB, [ColA EXCEPT !.isPrimary = TRUE]>>, <<ForeignKeyB>>,
            <<IndexAB, IndexB>>),
      \* a generated primary key
      Table("t", <<[ColA EXCEPT !.isPrimary = TRUE, !.isGenerated = TRUE], ColB, ColC>>,
            <<>>, <<>>),
      \* a unique column, two indices of one name
      Table("t", <<ColA, [ColB EXCEPT !.isUnique = TRUE]>>, <<>>,
            <<IndexA, [IndexB EXCEPT !.name = "ia"]>>),
      \* a generated column beside a primary key column
      Table("t", <<[ColA EXCEPT !.isPrimary = TRUE, !.isGenerated = TRUE],
                   [ColB EXCEPT !.isPrimary = TRUE]>>, <<>>, <<>>) }

\* the k-th row of t at the start: a = k, b = (k + 1) / 2
SampleRow(k) == <<[name |-> "a", value |-> k], [name |-> "b", value |-> (k + 1) \div 2]>>

\* the table CREATE TABLE makes of a descriptor, holding the given rows
StoredTable(tableSchema, rows) ==
    [Effect([tables |-> <<>>, indices |-> {}, saved |-> <<>>],
            CreateTableSql(tableSchema)).tables[tableSchema.name] EXCEPT !.rows = rows]

\* the database holding table t with n rows and the given indices
Database(n, indices) ==
    [tables |-> [name \in {"t"} |-> StoredTable(StoredT, [k \in 1..n |-> SampleRow(k)])],
     indices |-> indices,
     saved |-> <<>>]

\* the table recreateTable leaves for a descriptor, holding the given rows
RecreatedTable(tableSchema, rows) ==
    [Effect([tables |-> <<>>, indices |-> {}, saved |-> <<>>],
            CreateTemporaryTableSql(tableSchema)).tables[TemporaryName(tableSchema.name)]
        EXCEPT !.rows = rows]

\* a second table, referenced by the foreign key of t
StoredU == Table("u", <<Column("id", FALSE, TRUE, TRUE, FALSE)>>, <<>>, <<>>)

\* a closure table with one root entity
StoredTree ==
    Table("tree", <<Column("ancestor", FALSE, FALSE, FALSE, FALSE),
                    Column("descendant", FALSE, FALSE, FALSE, FALSE),
                    Column("level", FALSE, FALSE, FALSE, FALSE)>>, <<>>, <<>>)

RootRow == <<[name |-> "ancestor", value |-> 1], [name |-> "descendant", value |-> 1],
             [name |-> "level", value |-> 1]>>

Connections ==
    [releaseCallback : BOOLEAN, isTransactionActive : {FALSE},
     connection : {"resolved", "rejected"}]

InitRunner ==
    /\ isReleased = FALSE
    /\ databaseConnection \in Connections
    /\ pending = <<>>
    /\ logger = NoLog
    /\ call = NoCall
    /\ outcome = [state |-> "none", value |-> <<>>]
    /\ released = [calls |-> 0, callbacks |-> 0]
    /\ calls = 0
    /\ faults = 0

----------------------------------------------------------------------------
(* The recreation engine under every target descriptor *)

InitRecreate ==
    /\ InitRunner
    /\ \E n \in 0..MaxRows : \E indices \in {{}, {IndexA}, {IndexA, IndexB}} :
          db = Database(n, indices)

NextRecreate ==
    \/ \E tableSchema \in Targets : UpdatePrimaryKeys(tableSchema)
    \/ \E tableSchema \in Targets : ChangeColumns(tableSchema, <<>>)
    \/ RecreateStaged
    \/ RecreateProbed
    \/ RecreateCopied
    \/ RecreateDropped
    \/ RecreateRenamed
    \/ RecreateIndexCreated
    \/ ExecuteSqlFails
    \/ ExecuteSqlUnawaited
    \/ Release

SpecRecreate == InitRecreate /\ [][NextRecreate]_vars

----------------------------------------------------------------------------
(* Schema reflection over databases of several shapes *)

EmptyDatabase == [tables |-> <<>>, indices |-> {}, saved |-> <<>>]

\* the database after the engine has been given the statements one by one
RECURSIVE Executed(_, _)
Executed(d, stmts) ==
    IF stmts = <<>> THEN d
    ELSE Executed(IF Executable(d, Head(stmts)) THEN Effect(d, Head(stmts)) ELSE d,
                  Tail(stmts))

\* table t as a recreation under a target descriptor leaves it, beside table u or alone
ReflectedDatabases ==
    { Executed(EmptyDatabase,
               (IF withU THEN <<CreateTableSql(StoredU)>> ELSE <<>>)
               \o <<CreateTemporaryTableSql(tableSchema), RenameTableSql(tableSchema.name)>>
               \o indexPromises(tableSchema)) :
        tableSchema \in Targets, withU \in BOOLEAN }

\* the lists of names handed to loadSchemaTables (an absent list counts as empty)
TableNames == {<<>>, <<"t">>, <<"u">>, <<"t", "u">>, <<"x">>}

InitLoad ==
    /\ InitRunner
    /\ db \in ReflectedDatabases

NextLoad ==
    \/ \E tableNames \in TableNames : LoadSchemaTables(tableNames)
    \/ LoadListed
    \/ LoadReflected
    \/ LoadIndexInfo
    \/ \E index \in {IndexB, IndexAB} : CreateIndex(index)
    \/ AwaitReturned
    \/ ExecuteSqlFails
    \/ ExecuteSqlUnawaited
    \/ Release

SpecLoad == InitLoad /\ [][NextLoad]_vars

----------------------------------------------------------------------------
(* The autoincrement detection of loadSchemaTables over creation texts *)

\* the pieces a creation text is made of
Segments == {<<",">>, <<"(">>, Quoted("a"), Quoted("b"), <<"type">>}

\* creation texts: up to MaxSegments pieces, then the keyword and the rest, or
\* no keyword at all
TableSqls ==
    UNION {{Flatten(pieces) \o rest : pieces \in [1..n -> Segments],
                                       rest \in {<<>>, <<"AUTOINCREMENT", ")">>}} :
             n \in 0..MaxSegments}

InitDetect ==
    /\ isReleased = FALSE
    /\ databaseConnection = [releaseCallback |-> FALSE, isTransactionActive |-> FALSE,
                             connection |-> "resolved"]
    /\ db = EmptyDatabase
    /\ pending = <<>>
    /\ logger = NoLog
    /\ \E tableSql \in TableSqls :
          call = [NoCall EXCEPT !.name = "autoIncrementColumnName", !.args = <<tableSql>>]
    /\ outcome = [state |-> "none", value |-> <<>>]
    /\ released = [calls |-> 0, callbacks |-> 0]
    /\ calls = 0
    /\ faults = 0

\* lines 273-290 applied to dbTable["sql"]
AutoIncrementDetected ==
    /\ call.name = "autoIncrementColumnName"
    /\ outcome.state = "none"
    /\ outcome' = Resolved(autoIncrementColumnName(call.args[1]))
    /\ UNCHANGED <<isReleased, databaseConnection, db, pending, logger, call, released,
                   calls, faults>>

NextDetect == AutoIncrementDetected

SpecDetect == InitDetect /\ [][NextDetect]_vars

----------------------------------------------------------------------------
(* The structural mutation operations *)

\* table t with the foreign key fk_t_b and a second index
StoredTWithForeignKey ==
    [StoredT EXCEPT !.foreignKeys = <<ForeignKeyB>>, !.indices = <<IndexA, IndexB>>]

\* the descriptors the callers hold
Descriptors == {StoredT, StoredTWithForeignKey}

InitMutate ==
    /\ InitRunner
    /\ \E n \in 0..MaxRows : db = Database(n, {IndexA})

NextMutate ==
    \/ \E tableSchema \in Descriptors : \E columns \in {<<ColC>>, <<ColB>>} :
          CreateColumns(tableSchema, columns)
    \/ \E tableSchema \in Descriptors : DropColumns(tableSchema, <<ColA, ColB>>)
    \/ \E tableSchema \in Descriptors :
          ChangeColumns(tableSchema, <<[newColumn |-> [ColB EXCEPT !.isUnique = TRUE],
                                        oldColumn |-> ColB]>>)
    \/ \E tableSchema \in Descriptors :
          \/ UpdatePrimaryKeys([tableSchema EXCEPT !.columns[1].isPrimary = TRUE])
          \/ UpdatePrimaryKeys([tableSchema EXCEPT !.columns[1].isPrimary = TRUE,
                                                   !.columns[1].isGenerated = TRUE,
                                                   !.columns[2].isPrimary = TRUE])
    \/ \E table \in Targets : CreateTable(table)
    \/ AwaitReturned
    \/ \E tableSchema \in Descriptors : CreateForeignKeys(tableSchema, <<ForeignKeyB>>)
    \/ \E tableSchema \in Descriptors : DropForeignKeys(tableSchema, <<ForeignKeyB>>)
    \/ RecreateStaged
    \/ RecreateProbed
    \/ RecreateCopied
    \/ RecreateDropped
    \/ RecreateRenamed
    \/ RecreateIndexCreated
    \/ ExecuteSqlFails
    \/ ExecuteSqlUnawaited
    \/ Release

SpecMutate == InitMutate /\ [][NextMutate]_vars

----------------------------------------------------------------------------
(* Properties of the recreation engine *)

\* the statements the running call has handed to query(), in order
Issued == [i \in DOMAIN SelectSeq(logger.queries, LAMBDA e : e.call = call.id) |->
              SelectSeq(logger.queries, LAMBDA e : e.call = call.id)[i].statement]

\* the statements of the running call that executeSql rejected, in order
Failed == [i \in DOMAIN SelectSeq(logger.failedQueries, LAMBDA e : e.call = call.id) |->
              SelectSeq(logger.failedQueries, LAMBDA e : e.call = call.id)[i].statement]

\* the statements of the running call not yet executed
Unexecuted == [i \in DOMAIN SelectSeq(pending, LAMBDA e : e.call = call.id) |->
                  SelectSeq(pending, LAMBDA e : e.call = call.id)[i].statement]

Kinds(stmts) == [i \in DOMAIN stmts |-> stmts[i].sql]

\* the running call is a recreation of a table that existed when it was called
Recreating ==
    /\ call.recreations = 1
    /\ call.tableSchema.name \in DOMAIN call.before.tables

RecreationSucceeded == Recreating /\ outcome.state = "resolved"

OldTable == call.before.tables[call.tableSchema.name]
NewTable == db.tables[call.tableSchema.name]
OldColumns == Range(Names(OldTable.columns))
TargetColumns == Range(Names(call.tableSchema.columns))
GeneratedColumns ==
    {call.tableSchema.columns[i].name : i \in {j \in DOMAIN call.tableSchema.columns :
                                                  call.tableSchema.columns[j].isGenerated}}

\* the rows of the table under the original name are the old rows, carried over
\* on the shared columns and NULL on the added ones
Migrated ==
    /\ call.tableSchema.name \in DOMAIN db.tables
    /\ Names(NewTable.columns) = Names(call.tableSchema.columns)
    /\ Len(NewTable.rows) = Len(OldTable.rows)
    /\ \A k \in DOMAIN NewTable.rows :
          /\ Names(NewTable.rows[k]) = Names(call.tableSchema.columns)
          /\ \A c \in OldColumns \cap TargetColumns :
                RowValue(NewTable.rows[k], c) = RowValue(OldTable.rows[k], c)
          /\ \A c \in (TargetColumns \ OldColumns) \ GeneratedColumns :
                RowValue(NewTable.rows[k], c) = NULL

\* C2: a successful recreation of a non-empty table keeps the number of rows and
\* every row's values on the columns shared by the old table and the target;
\* the columns of the old table alone are gone, and the columns of the target
\* alone hold NULL in every row (a generated one the key the engine assigns).
C2_IntersectionPreserved ==
    (RecreationSucceeded /\ OldTable.rows # <<>>) => Migrated

\* a non-empty table was recreated with a column dropped and a column added
C2_Witness ==
    /\ RecreationSucceeded
    /\ OldTable.rows # <<>>
    /\ OldColumns \ TargetColumns # {}
    /\ (TargetColumns \ OldColumns) \ GeneratedColumns # {}
    /\ OldColumns \cap TargetColumns # {}

\* the primary key the engine enforces on a table
EnginePrimaryKey(table) ==
    IF \E i \in DOMAIN table.columns : table.columns[i].autoIncrement
    THEN Names(SelectSeq(table.columns, LAMBDA c : c.autoIncrement))
    ELSE table.primaryKey

\* C3: the recreation of a table without rows issues no INSERT; it runs CREATE
\* TABLE (temporary), SELECT, DROP TABLE, RENAME and the CREATE INDEXes, rejects
\* only if a statement fails or the runner is released, and leaves under the
\* original name a table with the columns, primary key and foreign keys of the
\* target descriptor.
C3_EmptyTableRecreation ==
    (Recreating /\ OldTable.rows = <<>>) =>
        /\ \A i \in DOMAIN Issued : Issued[i].sql # "INSERT SELECT"
        /\ outcome.state = "rejected" => (Failed # <<>> \/ isReleased)
        /\ outcome.state = "resolved" =>
              /\ Kinds(Issued) = <<"CREATE TABLE", "SELECT *", "DROP TABLE", "ALTER TABLE RENAME">>
                                  \o [i \in DOMAIN call.tableSchema.indices |-> "CREATE INDEX"]
              /\ call.tableSchema.name \in DOMAIN db.tables
              /\ TemporaryName(call.tableSchema.name) \notin DOMAIN db.tables
              /\ NewTable.rows = <<>>
              /\ Names(NewTable.columns) = Names(call.tableSchema.columns)
              /\ EnginePrimaryKey(NewTable)
                    = Names(SelectSeq(call.tableSchema.columns, LAMBDA c : c.isPrimary))
              /\ NewTable.foreignKeys = ForeignKeyClauses(call.tableSchema.foreignKeys)

\* a table without rows was recreated to a target with a primary key and a foreign key
C3_Witness ==
    /\ RecreationSucceeded
    /\ OldTable.rows = <<>>
    /\ call.tableSchema.foreignKeys # <<>>
    /\ EnginePrimaryKey(NewTable) # <<>>

\* C4: after a successful recreation the indices on the table are exactly the
\* index descriptors of the target, whatever indices there were before.
C4_IndexFidelity ==
    RecreationSucceeded =>
        IndicesOnTable(db, call.tableSchema.name) = Range(call.tableSchema.indices)

\* a table holding an index the target lacks was recreated to a target with indices
C4_Witness ==
    /\ RecreationSucceeded
    /\ call.tableSchema.indices # <<>>
    /\ IndicesOnTable(call.before, call.tableSchema.name) \ Range(call.tableSchema.indices) # {}

\* the order of the statements of a recreation
Rank(sql) ==
    CASE sql = "CREATE TABLE" -> 1
      [] sql = "SELECT *" -> 2
      [] sql = "INSERT SELECT" -> 3
      [] sql = "DROP TABLE" -> 4
      [] sql = "ALTER TABLE RENAME" -> 5
      [] sql = "CREATE INDEX" -> 6
      [] OTHER -> 0

\* the position of the handler: Idle, Staged .. IndicesRebuilt
Position5(pc) ==
    CASE pc = "sql1" -> 1
      [] pc = "firstDatas" -> 2
      [] pc = "sql2" -> 3
      [] pc = "sql3" -> 4
      [] pc = "sql4" -> 5
      [] pc = "indexPromises" -> 6
      [] OTHER -> 7

\* the statements issued so far come in the order of the sequence, each kind but
\* CREATE INDEX at most once, and a statement is issued only when every
\* statement of an earlier step has been executed with success
C5_Order ==
    Recreating =>
        /\ \A i \in DOMAIN Issued : Rank(Issued[i].sql) > 0
        /\ \A i, j \in DOMAIN Issued :
              i < j => \/ Rank(Issued[i].sql) < Rank(Issued[j].sql)
                       \/ Issued[i].sql = "CREATE INDEX" /\ Issued[j].sql = "CREATE INDEX"
        /\ \A i, j \in DOMAIN Issued :
              Rank(Issued[i].sql) < Rank(Issued[j].sql) =>
                  /\ Issued[i] \notin Range(Unexecuted)
                  /\ Issued[i] \notin Range(Failed)
        /\ (\E i \in DOMAIN Issued : Issued[i].sql = "DROP TABLE") =>
              /\ Kinds(SubSeq(Issued, 1, 2)) = <<"CREATE TABLE", "SELECT *">>
              /\ TemporaryName(call.tableSchema.name) \in DOMAIN db.tables
                    \/ call.tableSchema.name \in DOMAIN db.tables
        /\ (\E i \in DOMAIN Issued : Issued[i].sql = "CREATE INDEX") =>
              \E j \in DOMAIN Issued : Issued[j].sql = "ALTER TABLE RENAME"

\* within one recreation the handler only moves forward, one step at a time
\* (the copy is left out for a table without rows), or ends
C5_Step ==
    (Recreating /\ call'.id = call.id /\ call'.pc # call.pc) =>
        \/ Position5(call'.pc) = Position5(call.pc) + 1
        \/ call.pc = "firstDatas" /\ call'.pc = "sql3"
        \/ call'.pc = "done"

\* C5: recreateTable moves only forward through its steps: the CREATE TABLE of
\* the temporary table completes before the SELECT, the INSERT..SELECT (if any)
\* before the DROP TABLE, the DROP before the RENAME, and no CREATE INDEX is
\* issued before the RENAME has completed; no step is revisited.
C5_ForwardOnly == []C5_Order /\ [][C5_Step]_vars

\* a recreation that copied rows has issued its CREATE INDEX statements
C5_Witness ==
    /\ Recreating
    /\ call.pc = "indexPromises"
    /\ Kinds(SubSeq(Issued, 1, 5))
          = <<"CREATE TABLE", "SELECT *", "INSERT SELECT", "DROP TABLE", "ALTER TABLE RENAME">>

\* the recreation was rejected with the error of a statement the engine failed
RecreationFailedAt(sqls) ==
    /\ Recreating
    /\ outcome.state = "rejected"
    /\ outcome.error.error = "SQLError"
    /\ outcome.error.statement.sql \in sqls

\* C6: a recreation that a failing statement ends is rejected with the error of
\* the first statement that failed; no statement of a later step and no other
\* statement is issued. After a failure of the SELECT or of the copy the
\* original table is as it was and the temporary table exists beside it; after
\* a failure of a CREATE INDEX the table exists under its name with the
\* migrated rows, the temporary name is free, and the indices on it are target
\* indices, the failed one not among them.
C6_FailurePropagates ==
    /\ (Recreating /\ Failed # <<>>) =>
          /\ outcome = Rejected(EngineError(Failed[1]))
          /\ C5_Order
          /\ \A i \in DOMAIN Issued : Rank(Issued[i].sql) <= Rank(Failed[1].sql)
    /\ RecreationFailedAt({"SELECT *", "INSERT SELECT"}) =>
          /\ NewTable = OldTable
          /\ TemporaryName(call.tableSchema.name) \in DOMAIN db.tables
    /\ RecreationFailedAt({"CREATE INDEX"}) =>
          /\ TemporaryName(call.tableSchema.name) \notin DOMAIN db.tables
          /\ OldTable.rows # <<>> => Migrated
          /\ IndicesOnTable(db, call.tableSchema.name) \subseteq Range(call.tableSchema.indices)
          /\ Index(outcome.error.statement.table, outcome.error.statement.name,
                   outcome.error.statement.columnNames, outcome.error.statement.unique)
                \notin db.indices

\* a CREATE INDEX failed after the rows of a non-empty table had been migrated
C6_Witness ==
    /\ RecreationFailedAt({"CREATE INDEX"})
    /\ OldTable.rows # <<>>
    /\ pending = <<>>
    /\ IndicesOnTable(db, call.tableSchema.name) # {}

\* C7 as claimed: the INSERT..SELECT is issued only with a non-empty list of
\* shared columns.
C7_CopyOnlySharedColumns ==
    \A i \in DOMAIN Issued :
        Issued[i].sql = "INSERT SELECT" => Issued[i].insertColumns # <<>>

\* an operation is called in this step
Called == calls' = calls + 1

\* the call made in this step fails with AlreadyReleased before anything is
\* handed to the connection
RejectedAtEntry ==
    /\ outcome' = Rejected(QueryRunnerAlreadyReleasedError)
    /\ pending' = pending
    /\ logger'.queries = <<>>
    /\ db' = db

\* C1 as claimed: once release() has been called, every later call of a public
\* operation fails with AlreadyReleased and issues no statement.
C1_ReleaseCalledRejects == [][(released.calls > 0 /\ Called) => RejectedAtEntry]_vars

\* C1, amended: once release() has been called on a runner whose connection has
\* a release callback, every later call of a public operation fails with
\* AlreadyReleased and issues no statement to the connection.
C1_ReleasedRejects ==
    [][(released.calls > 0 /\ databaseConnection.releaseCallback /\ Called)
          => RejectedAtEntry]_vars

\* an operation was called after release() on a pooled connection and failed
\* with AlreadyReleased, nothing logged, nothing handed to the connection
C1_Witness ==
    /\ released.callbacks > 0
    /\ call.name = "createIndex"
    /\ outcome = Rejected(QueryRunnerAlreadyReleasedError)
    /\ logger = NoLog
    /\ pending = <<>>

\* C8 as claimed: loadSchemaTables resolves with exactly one descriptor for each
\* requested name that is a table of the database, and with nothing else.
C8_ExactlyRequested ==
    (call.name = "loadSchemaTables" /\ outcome.state = "resolved")
        => /\ NoDuplicates(Names(outcome.value))
           /\ Range(Names(outcome.value)) = Range(call.args[1]) \cap DOMAIN db.tables

\* C9: loadSchemaTables called on an Active runner with an empty list of names
\* resolves with an empty result and hands no statement to the connection.
C9_EmptyNames ==
    [][(/\ ~isReleased
        /\ Called
        /\ call'.name = "loadSchemaTables"
        /\ call'.args[1] = <<>>)
          => /\ outcome' = Resolved(<<>>)
             /\ pending' = pending
             /\ logger'.queries = <<>>
             /\ db' = db]_vars

\* loadSchemaTables([]) was called on an Active runner over a database with tables
C9_Witness ==
    /\ ~isReleased
    /\ call.name = "loadSchemaTables"
    /\ call.args[1] = <<>>
    /\ outcome = Resolved(<<>>)
    /\ DOMAIN db.tables # {}

\* the running call is a structural mutation that got past the released check
Mutating ==
    /\ call.name \in {"createColumns", "dropColumns", "changeColumns", "updatePrimaryKeys",
                      "createForeignKeys", "dropForeignKeys"}
    /\ ~(outcome = Rejected(QueryRunnerAlreadyReleasedError) /\ Issued = <<>>)

\* C10 as claimed: every structural mutation runs one recreation, under the
\* caller's descriptor with the edit applied: createColumns with the given
\* columns in it, dropColumns without them, createForeignKeys with the given
\* foreign keys in it, dropForeignKeys without them.
C10_EditApplied ==
    Mutating =>
        /\ call.recreations = 1
        /\ call.tableSchema.name = call.args[1].name
        /\ call.name = "createColumns"
              => Range(call.args[2]) \subseteq Range(call.tableSchema.columns)
        /\ call.name = "dropColumns"
              => Range(Names(call.args[2])) \cap Range(Names(call.tableSchema.columns)) = {}
        /\ call.name = "createForeignKeys"
              => Range(call.args[2]) \subseteq Range(call.tableSchema.foreignKeys)
        /\ call.name = "dropForeignKeys"
              => Range(Names(call.args[2])) \cap Range(Names(call.tableSchema.foreignKeys)) = {}

\* the engine fails the statement at the head of the queue in this step: a
\* fault of its own, or a statement it cannot execute is taken from the queue
EngineFails ==
    /\ pending # <<>>
    /\ \/ faults' = faults + 1
       \/ ~Executable(db, Head(pending).statement) /\ pending' # pending

\* C11: a statement whose execution fails in the engine is executed once (it
\* leaves the queue and is not handed to the connection again), the failed
\* statement and the error are logged, and the promise of the operation that
\* awaits it is rejected with the engine's error; the failure changes nothing
\* in the database and never resolves a promise.
C11_FailureLoggedAndRejected ==
    [][EngineFails =>
          /\ pending' = Tail(pending)
          /\ db' = db
          /\ logger'.failedQueries = Append(logger.failedQueries, Head(pending))
          /\ logger'.errors = Append(logger.errors, EngineError(Head(pending).statement))
          /\ logger'.queries = logger.queries
          /\ IF outcome.state = "pending" /\ Head(pending).call = call.id
             THEN outcome' = Rejected(EngineError(Head(pending).statement))
             ELSE outcome' = outcome]_vars

\* query() was called with a statement the engine then failed: logged once,
\* rejected with that error, nothing left in the queue
C11_Witness ==
    /\ call.name = "query"
    /\ Issued = <<SelectAllSql("t")>>
    /\ Failed = Issued
    /\ logger.errors = <<EngineError(SelectAllSql("t"))>>
    /\ outcome = Rejected(EngineError(SelectAllSql("t")))
    /\ pending = <<>>

\* the three reflection queries of loadSchemaTables
ReflectionKinds == {"PRAGMA table_info", "PRAGMA index_list", "PRAGMA foreign_key_list"}

\* C12 as claimed: an operation has at most one statement in flight, except
\* the three reflection queries of one table in loadSchemaTables and the
\* CREATE INDEX statements of the index rebuild of recreateTable.
C12_OneInFlight ==
    Len(Unexecuted) > 1 =>
        \/ /\ call.name = "loadSchemaTables"
           /\ Range(Kinds(Unexecuted)) \subseteq ReflectionKinds
           /\ \A i, j \in DOMAIN Unexecuted : Unexecuted[i].table = Unexecuted[j].table
        \/ /\ call.recreations = 1
           /\ Range(Kinds(Unexecuted)) = {"CREATE INDEX"}

\* C12, amended: an operation has at most one statement in flight, except in
\* loadSchemaTables after the table listing (the reflection queries of all
\* listed tables and the index_info queries are in flight together), in
\* clearDatabase (all DROP TABLE statements are in flight together) and in the
\* index rebuild of recreateTable (all CREATE INDEX statements).
C12_InFlight ==
    Len(Unexecuted) > 1 =>
        \/ /\ call.name = "loadSchemaTables"
           /\ Range(Kinds(Unexecuted)) \subseteq ReflectionKinds \cup {"PRAGMA index_info"}
        \/ /\ call.name = "clearDatabase"
           /\ Range(Kinds(Unexecuted)) = {"DROP TABLE"}
        \/ /\ call.recreations = 1
           /\ Range(Kinds(Unexecuted)) = {"CREATE INDEX"}

\* loadSchemaTables with the reflection queries of one table and an index_info
\* query of another in flight
C12_Witness ==
    /\ call.name = "loadSchemaTables"
    /\ outcome = Pending
    /\ {"PRAGMA table_info", "PRAGMA index_info"} \subseteq Range(Kinds(Unexecuted))

\* the running call is a loadSchemaTables with a failed reflection query
LoadFailed == call.name = "loadSchemaTables" /\ Failed # <<>>

\* C13 as claimed: when a reflection query of loadSchemaTables fails, the call
\* is rejected with the error of that query.
C13_RejectsWithQueryError == LoadFailed => outcome = Rejected(EngineError(Failed[1]))

\* C13, amended: when a reflection query of loadSchemaTables fails, the call is
\* rejected and no descriptor is returned; it is rejected with the error of the
\* first failed query unless it had been rejected before with AlreadyReleased
\* (release() during the call); no reflection query is issued twice.
C13_LoadFailurePropagates ==
    /\ call.name = "loadSchemaTables" => NoDuplicates(Issued)
    /\ LoadFailed =>
          /\ outcome.state = "rejected"
          /\ \/ outcome.error = EngineError(Failed[1])
             \/ isReleased /\ outcome.error = QueryRunnerAlreadyReleasedError
          /\ Range(Failed) \cap Range(Unexecuted) = {}

\* an index_info query failed after a descriptor had been built in part: the
\* call is rejected with the error of the query
C13_Witness ==
    /\ LoadFailed
    /\ ~isReleased
    /\ Failed[1].sql = "PRAGMA index_info"
    /\ outcome = Rejected(EngineError(Failed[1]))
    /\ \E i \in DOMAIN call.partial : call.partial[i].schema.columns # <<>>

\* C14 as claimed: every index created on a table comes back from a following
\* loadSchemaTables as an index descriptor of that table with the same table
\* name, index name, columns in order and uniqueness flag.
C14_IndexRoundTrip ==
    (call.name = "loadSchemaTables" /\ outcome.state = "resolved") =>
        \A index \in db.indices : \A k \in DOMAIN outcome.value :
            outcome.value[k].name = index.tableName
                => index \in Range(outcome.value[k].indices)

\* the positions of a token before the AUTOINCREMENT keyword of a text
Before(text, token) ==
    {i \in 1..(IndexOf(text, "AUTOINCREMENT") - 1) : text[i] = token}

Last(positions) == CHOOSE i \in positions : \A j \in positions : j <= i

\* the text between the first and the last quote from a position up to the keyword
\* (defined when there are two quotes at least)
QuotedFrom(text, start) ==
    LET quotes == {i \in Before(text, "\"") : i >= start}
    IN  SubSeq(text, (CHOOSE i \in quotes : \A j \in quotes : i <= j) + 1, Last(quotes) - 1)

\* the detection has been applied to a text with the keyword, a comma or a
\* bracket before it, and two quotes at least from the given position on
Detected(text, start) ==
    /\ call.name = "autoIncrementColumnName"
    /\ outcome.state = "resolved"
    /\ IndexOf(text, "AUTOINCREMENT") # 0
    /\ Before(text, ",") \cup Before(text, "(") # {}
    /\ Cardinality({i \in Before(text, "\"") : i >= start}) >= 2

\* C15 as claimed: the span searched starts at the last comma or the last
\* opening bracket before the keyword, whichever is closer to the keyword, and
\* the detected name is the quoted text inside that span.
C15_CloserOfCommaAndBracket ==
    LET text == call.args[1]
        start == Last(Before(text, ",") \cup Before(text, "("))
    IN  Detected(text, start) => outcome.value = QuotedFrom(text, start)

\* C15, amended: the span searched starts at the last comma before the keyword
\* when there is a comma, and at the last opening bracket only when there is no
\* comma; the detected name is the text between the first and the last quote
\* of that span. A text without the keyword yields no name.
C15_CommaBeforeBracket ==
    LET text == call.args[1]
        start == IF Before(text, ",") # {} THEN Last(Before(text, ","))
                 ELSE Last(Before(text, "("))
    IN  /\ Detected(text, start) => outcome.value = QuotedFrom(text, start)
        /\ (/\ call.name = "autoIncrementColumnName"
            /\ outcome.state = "resolved"
            /\ IndexOf(text, "AUTOINCREMENT") = 0) => outcome.value = <<>>

\* ( "a" , "b" AUTOINCREMENT ) yields b
C15_Witness ==
    /\ call.name = "autoIncrementColumnName"
    /\ call.args[1] = <<"(">> \o Quoted("a") \o <<",">> \o Quoted("b")
                        \o <<"AUTOINCREMENT", ")">>
    /\ outcome = Resolved(<<"b">>)

\* the descriptor a CREATE TABLE statement of the running call is rendered from
Rendered == IF call.name = "createTable" THEN call.args[1] ELSE call.tableSchema

\* the statement has one FOREIGN KEY clause per foreign key of the descriptor
ForeignKeysRendered(statement, table) ==
    /\ Len(statement.foreignKeys) = Len(table.foreignKeys)
    /\ \A i \in DOMAIN table.foreignKeys :
          /\ statement.foreignKeys[i].columnNames = table.foreignKeys[i].columnNames
          /\ statement.foreignKeys[i].referencedTableName
                = table.foreignKeys[i].referencedTableName
          /\ statement.foreignKeys[i].referencedColumnNames
                = table.foreignKeys[i].referencedColumnNames

\* the statement has a PRIMARY KEY clause exactly when the descriptor has a
\* primary column that is not generated; the clause lists those columns, each
\* once, in declared order
PrimaryKeyRendered(statement, table) ==
    /\ Range(statement.primaryKey)
          = {c.name : c \in {x \in Range(table.columns) : x.isPrimary /\ ~x.isGenerated}}
    /\ NoDuplicates(statement.primaryKey)
    /\ \A i, j \in DOMAIN statement.primaryKey :
          i < j => Position(Names(table.columns), statement.primaryKey[i])
                     < Position(Names(table.columns), statement.primaryKey[j])

\* C16 as claimed: every CREATE TABLE statement, of createTable and of
\* recreateTable, has one FOREIGN KEY clause per foreign key of the descriptor
\* and the PRIMARY KEY clause of its primary columns that are not generated.
C16_ClausesRendered ==
    \A i \in DOMAIN Issued :
        Issued[i].sql = "CREATE TABLE"
            => /\ ForeignKeysRendered(Issued[i], Rendered)
               /\ PrimaryKeyRendered(Issued[i], Rendered)

\* C16, amended: the CREATE TABLE of recreateTable has one FOREIGN KEY clause
\* per foreign key of the descriptor, the CREATE TABLE IF NOT EXISTS of
\* createTable has no FOREIGN KEY clause at all; both have the PRIMARY KEY clause
\* of the primary columns that are not generated, in declared order, exactly
\* when there is such a column.
C16_ClausesOfEachStatement ==
    \A i \in DOMAIN Issued :
        Issued[i].sql = "CREATE TABLE"
            => /\ IF call.name = "createTable"
                  THEN Issued[i].foreignKeys = <<>> /\ Issued[i].ifNotExists
                  ELSE ForeignKeysRendered(Issued[i], Rendered) /\ ~Issued[i].ifNotExists
               /\ PrimaryKeyRendered(Issued[i], Rendered)

\* a recreation under a descriptor with a foreign key, a generated column and a
\* primary column: one FOREIGN KEY clause, PRIMARY KEY of the primary column only
C16_Witness ==
    /\ call.name = "updatePrimaryKeys"
    /\ call.tableSchema.foreignKeys # <<>>
    /\ \E c \in Range(call.tableSchema.columns) : c.isGenerated
    /\ Issued # <<>>
    /\ Issued[1].sql = "CREATE TABLE"
    /\ Len(Issued[1].foreignKeys) = 1
    /\ Issued[1].primaryKey = <<"b">>

\* the names of the columns of the original table, as a row of it shows them
OldNames == Names(call.before.tables[call.tableSchema.name].columns)

\* C17: the INSERT..SELECT of a recreation names, on both sides (bare on the
\* INSERT side, in quotes on the SELECT side), the columns of the old row that
\* are columns of the target descriptor: each once, in the order of the old row.
C17_CopyColumnList ==
    Recreating =>
        \A i \in DOMAIN Issued :
            Issued[i].sql = "INSERT SELECT" =>
                /\ Issued[i].insertColumns
                      = [j \in DOMAIN Issued[i].selectColumns |->
                            Unquoted(Issued[i].selectColumns[j])]
                /\ Range(Issued[i].insertColumns)
                      = Range(OldNames) \cap Range(Names(call.tableSchema.columns))
                /\ NoDuplicates(Issued[i].insertColumns)
                /\ \A j, k \in DOMAIN Issued[i].insertColumns :
                      j < k => Position(OldNames, Issued[i].insertColumns[j])
                                 < Position(OldNames, Issued[i].insertColumns[k])

\* a table with columns a, b is recreated under a descriptor with columns b, a:
\* the copy names a, b
C17_Witness ==
    /\ Recreating
    /\ Names(call.tableSchema.columns) = <<"b", "a">>
    /\ OldNames = <<"a", "b">>
    /\ InsertSelectSql("t", <<"a", "b">>) \in Range(Issued)
    /\ outcome.state = "resolved"

\* the call made in this step fails with the error and has no effect
RejectedWithoutEffect(error) ==
    /\ outcome' = Rejected(error)
    /\ pending' = pending
    /\ logger'.queries = <<>>
    /\ databaseConnection' = databaseConnection
    /\ db' = db

\* C18: on an Active runner beginTransaction fails with TransactionAlreadyStarted
\* while the transaction flag is set, commitTransaction and rollbackTransaction
\* fail with TransactionNotStarted while it is not; no statement is issued and
\* the flag is unchanged.
C18_TransactionMisuse ==
    [][(~isReleased /\ Called) =>
          /\ (call'.name = "beginTransaction" /\ databaseConnection.isTransactionActive)
                => RejectedWithoutEffect(TransactionAlreadyStartedError)
          /\ (/\ call'.name \in {"commitTransaction", "rollbackTransaction"}
              /\ ~databaseConnection.isTransactionActive)
                => RejectedWithoutEffect(TransactionNotStartedError)]_vars

\* beginTransaction was called a second time inside the transaction the first
\* call opened
C18_Witness ==
    /\ ~isReleased
    /\ call.name = "beginTransaction"
    /\ call.id = 2
    /\ outcome = Rejected(TransactionAlreadyStartedError)
    /\ databaseConnection.isTransactionActive
    /\ db.saved # <<>>
    /\ pending = <<>>

\* the table of the database holds every row the original table held when the
\* recreation was called, on the columns shared with the target
Holds(name) ==
    /\ name \in DOMAIN db.tables
    /\ Len(db.tables[name].rows) = Len(OldTable.rows)
    /\ \A k \in DOMAIN OldTable.rows : \A c \in OldColumns \cap TargetColumns :
          /\ c \in ColumnNamesOf(db, name)
          /\ RowValue(db.tables[name].rows[k], c) = RowValue(OldTable.rows[k], c)

\* C19: at every point of a recreation, failed or not, the rows the original
\* table held at the start are, on the shared columns, in the table under the
\* original name or in the temporary table; the original table is gone only
\* when the temporary table holds them.
C19_NoDataLoss ==
    Recreating =>
        /\ Holds(call.tableSchema.name) \/ Holds(TemporaryName(call.tableSchema.name))
        /\ (call.tableSchema.name \notin DOMAIN db.tables /\ OldTable.rows # <<>>)
              => Holds(TemporaryName(call.tableSchema.name))

\* the rename failed after the drop: the original table is gone, its rows are
\* in the temporary table
C19_Witness ==
    /\ Recreating
    /\ OldTable.rows # <<>>
    /\ outcome.state = "rejected"
    /\ Failed # <<>>
    /\ Failed[1].sql = "ALTER TABLE RENAME"
    /\ call.tableSchema.name \notin DOMAIN db.tables
    /\ Holds(TemporaryName(call.tableSchema.name))

\* a BEGIN TRANSACTION, COMMIT or ROLLBACK is in the queue of the connection
TransactionStatementInFlight ==
    \E i \in DOMAIN pending :
        pending[i].statement.sql \in {"BEGIN TRANSACTION", "COMMIT", "ROLLBACK"}

\* C20 as claimed: while no transaction statement is in flight, the transaction
\* flag is set exactly when the engine is inside a transaction (a BEGIN has
\* succeeded and no COMMIT or ROLLBACK has succeeded since).
C20_FlagAgreesWithEngine ==
    ~TransactionStatementInFlight
        => (databaseConnection.isTransactionActive <=> db.saved # <<>>)

\* C21 as claimed: every operation called on an Active runner eventually settles,
\* its promise is resolved or rejected, whether the connection promise resolves or
\* rejects and whether its statements succeed or fail.
C21_EventuallySettles == (outcome.state = "pending") ~> (outcome.state # "pending")

\* C21 on a connection promise that resolves: the same (holds; the operations
\* wait forever only behind a rejected connection promise)
C21_SettlesWhenConnected ==
    (databaseConnection.connection = "resolved" /\ outcome.state = "pending")
        ~> (outcome.state # "pending")

\* the step is a call of release()
ReleaseCalled == released'.calls = released.calls + 1

\* C22: release() marks the runner released and invokes the release callback
\* exactly when the connection has a release callback; on a connection without
\* one release() changes nothing of the runner, which stays Active and rejects
\* no later call with AlreadyReleased. The runner is Released exactly when
\* release() has been called on a connection with a release callback, and a
\* Released runner never becomes Active again.
C22_ReleaseLifecycle ==
    /\ [](/\ isReleased <=> (databaseConnection.releaseCallback /\ released.calls > 0)
          /\ released.callbacks
                = (IF databaseConnection.releaseCallback THEN released.calls ELSE 0))
    /\ [][/\ ReleaseCalled =>
               /\ isReleased' = databaseConnection.releaseCallback
               /\ released'.callbacks = released.callbacks
                      + (IF databaseConnection.releaseCallback THEN 1 ELSE 0)
               /\ UNCHANGED <<databaseConnection, db, pending, logger, call, outcome>>
          /\ isReleased => isReleased'
          /\ (Called /\ ~databaseConnection.releaseCallback)
                => outcome' # Rejected(QueryRunnerAlreadyReleasedError)]_vars

\* release() has been called on a connection without a release callback: the
\* runner is still Active and both operations called on it have resolved
C22_Witness ==
    /\ ~databaseConnection.releaseCallback
    /\ released = [calls |-> 1, callbacks |-> 0]
    /\ ~isReleased
    /\ calls = MaxCalls
    /\ outcome.state = "resolved"
    /\ pending = <<>>

\* the running call is a recreation called while the temporary table of an
\* earlier, failed recreation of the same table was in place
LeftOver ==
    /\ call.recreations = 1
    /\ TemporaryName(call.tableSchema.name) \in DOMAIN call.before.tables

\* such a recreation issues its CREATE TABLE and nothing else, is rejected with
\* the error of that statement, and leaves every table and index as it was
FailsAtFirstStatement ==
    LeftOver =>
        /\ Issued = <<CreateTemporaryTableSql(call.tableSchema)>>
        /\ outcome.state # "resolved"
        /\ Unexecuted = <<>> =>
               outcome = Rejected(EngineError(CreateTemporaryTableSql(call.tableSchema)))
        /\ db = call.before

\* the step calls a structural mutation of t while temporary_t is in place
CalledOverLeftOver ==
    /\ Called
    /\ TemporaryName("t") \in DOMAIN db.tables

\* the call made in this step hands its CREATE TABLE to the connection
IssuesFirstStatement ==
    /\ outcome' = Pending
    /\ logger'.queries = InFlight(call'.id, <<CreateTemporaryTableSql(call'.args[1])>>)
    /\ pending' = pending \o logger'.queries

\* a left-over temporary table stays: no step removes or changes it
LeftOverStays ==
    (TemporaryName("t") \in DOMAIN db.tables /\ outcome.state = "rejected")
        => /\ TemporaryName("t") \in DOMAIN db'.tables
           /\ db'.tables[TemporaryName("t")] = db.tables[TemporaryName("t")]

IndexStatements == SelectSeq(Issued, LAMBDA statement : statement.sql = "CREATE INDEX")

\* the index a CREATE INDEX statement creates
IndexOfStatement(statement) ==
    Index(statement.table, statement.name, statement.columnNames, statement.unique)

\* the running call is a recreation that has reached its index-rebuild step
Rebuilding == call.recreations = 1 /\ IndexStatements # <<>>

\* C24: in the index-rebuild step of recreateTable the CREATE INDEX statements
\* of all indices of the target descriptor are issued together and none is
\* cancelled: each of them is waiting on the connection, has failed, or has
\* taken effect. When one fails the recreation is rejected with the first
\* failure, the others are still executed, and once all have left the
\* connection the indices on the table are the target indices without those
\* whose own statement failed.
C24_IndexRebuild ==
    Rebuilding =>
        /\ IndexStatements = indexPromises(call.tableSchema)
        /\ \A i \in DOMAIN IndexStatements :
              \/ IndexStatements[i] \in Range(Unexecuted)
              \/ IndexStatements[i] \in Range(Failed)
              \/ IndexOfStatement(IndexStatements[i]) \in db.indices
        /\ Failed # <<>> => outcome = Rejected(EngineError(Failed[1]))
        /\ (Failed = <<>> /\ Unexecuted # <<>>) => outcome.state = "pending"
        /\ Unexecuted = <<>> =>
              IndicesOnTable(db, call.tableSchema.name)
                 = {IndexOfStatement(IndexStatements[i]) :
                       i \in {j \in DOMAIN IndexStatements :
                                  IndexStatements[j] \notin Range(Failed)}}

\* the first of two CREATE INDEX statements failed and the recreation was
\* rejected with its error; the second was executed afterwards and its index exists
C24_Witness ==
    /\ Rebuilding
    /\ Len(IndexStatements) = 2
    /\ Failed = <<IndexStatements[1]>>
    /\ outcome = Rejected(EngineError(IndexStatements[1]))
    /\ Unexecuted = <<>>
    /\ IndicesOnTable(db, call.tableSchema.name) = {IndexOfStatement(IndexStatements[2])}

----------------------------------------------------------------------------
(* The runner with every public operation *)

Init ==
    /\ InitRunner
    /\ db = [tables |-> [name \in {"t", "tree"} |->
                            IF name = "t" THEN StoredTable(StoredT, <<SampleRow(1)>>)
                            ELSE StoredTable(StoredTree, <<RootRow>>)],
             indices |-> {IndexA},
             saved |-> <<>>]

Next ==
    \/ Release
    \/ Query(SelectAllSql("t"))
    \/ QueryReturned
    \/ \E generatedColumn \in BOOLEAN :
          Insert("t", <<[name |-> "a", value |-> 2], [name |-> "b", value |-> 1]>>,
                 generatedColumn)
    \/ InsertReturned
    \/ Update("t", <<[name |-> "b", value |-> 2]>>, <<[name |-> "a", value |-> 1]>>)
    \/ Delete("t", <<[name |-> "a", value |-> 1]>>)
    \/ CreateTable(StoredU)
    \/ CreateIndex(IndexB)
    \/ DropIndex("t", "ia")
    \/ AwaitReturned
    \/ BeginTransaction
    \/ CommitTransaction
    \/ RollbackTransaction
    \/ CommitReturned
    \/ RollbackReturned
    \/ \E hasLevel \in BOOLEAN : InsertIntoClosureTable("tree", 2, 1, hasLevel)
    \/ ClosureInserted
    \/ ClosureLevelReturned
    \/ ClearDatabase
    \/ ClearSelected
    \/ ClearDropped
    \/ \E tableNames \in {<<>>, <<"t">>} : LoadSchemaTables(tableNames)
    \/ LoadListed
    \/ LoadReflected
    \/ LoadIndexInfo
    \/ CreateColumns(StoredT, <<ColC>>)
    \/ ChangeColumns([StoredT EXCEPT !.indices = <<IndexA, IndexB>>], <<>>)
    \/ DropColumns(StoredT, <<ColB>>)
    \/ UpdatePrimaryKeys([StoredT EXCEPT !.columns[1].isPrimary = TRUE])
    \/ CreateForeignKeys(StoredT, <<ForeignKeyB>>)
    \/ DropForeignKeys(StoredT, <<ForeignKeyB>>)
    \/ RecreateStaged
    \/ RecreateProbed
    \/ RecreateCopied
    \/ RecreateDropped
    \/ RecreateRenamed
    \/ RecreateIndexCreated
    \/ ExecuteSqlFails
    \/ ExecuteSqlUnawaited

Spec == Init /\ [][Next]_vars

----------------------------------------------------------------------------
(* query() and recreateTable on an event loop *)

NextLive ==
    \/ Query(SelectAllSql("t"))
    \/ QueryReturned
    \/ ChangeColumns([StoredT EXCEPT !.indices = <<IndexA, IndexB>>], <<>>)
    \/ RecreateStaged
    \/ RecreateProbed
    \/ RecreateCopied
    \/ RecreateDropped
    \/ RecreateRenamed
    \/ RecreateIndexCreated
    \/ ExecuteSqlFails
    \/ ExecuteSqlUnawaited
    \/ Release

\* the callbacks the event loop runs by itself: the then/catch handlers query()
\* has registered on executeSql and the continuations of the awaiting operations
Callbacks ==
    \/ QueryReturned
    \/ RecreateStaged
    \/ RecreateProbed
    \/ RecreateCopied
    \/ RecreateDropped
    \/ RecreateRenamed
    \/ RecreateIndexCreated
    \/ ExecuteSqlFails
    \/ ExecuteSqlUnawaited

\* the event loop runs every callback that is ready (each callback takes a
\* statement from the connection or logs one); the caller is free to stop calling
SpecLive == Init /\ [][NextLive]_vars /\ WF_<<pending, logger>>(Callbacks)

====
